---- MODULE Spec2Model ----
(***************************************************************************)
(* Verification model of wifi_monitor_cli: the aligned time-series store   *)
(* filled by LiveView.collect_data, the ping host list (core/ping.py), the *)
(* reader LiveView.get_windowed_data, the scan store (core/storage.py),    *)
(* the time bucketer and the block-chart renderers (ui/charts.py).         *)
(*                                                                         *)
(* Threads (app.py): the main thread runs setup_ping_hosts, one initial    *)
(* collect_data, then the key/render loop (add/remove host, pause, render);*)
(* the collection thread runs collection_worker; one ping_worker thread    *)
(* per host writes that host's "latest".  One Python statement is one      *)
(* atomic step, except where the statements merged touch only data no      *)
(* other thread reads (said at the action).                                *)
(***************************************************************************)
EXTENDS Integers, Sequences, FiniteSets, TLC

(***************************************************************************)
(* Values.  Python None, numpy NaN and numbers are kept apart.             *)
(***************************************************************************)
None == [k |-> "none"]
NaN == [k |-> "nan"]
Num(v) == [k |-> "num", v |-> v]
IsNaN(x) == x = NaN

\* `x if x is not None else np.nan` (live_view.py:50,53,56,59,72)
OrNaN(x) == IF x = None THEN NaN ELSE x

Min(a, b) == IF a < b THEN a ELSE b
Max(a, b) == IF a > b THEN a ELSE b

\* arr[n:]  (numpy / list slice: dropping more than there is leaves nothing)
DropFirst(arr, n) == IF n >= Len(arr) THEN <<>> ELSE SubSeq(arr, n + 1, Len(arr))

\* the last n entries of arr (all of arr when it is shorter)
LastN(arr, n) == IF Len(arr) <= n THEN arr ELSE SubSeq(arr, Len(arr) - n + 1, Len(arr))

(***************************************************************************)
(* Bounds of the model.                                                    *)
(***************************************************************************)
MaxTicks == 3          \* collector ticks started in one behaviour
MaxRetained == 2       \* retention ceiling used for MAX_DATA_POINTS
MaxHosts == 2          \* host_info dicts created in one behaviour
MaxRemoves == 1        \* remove_ping_host calls in one behaviour
MaxProbes == 1         \* probes completed by all ping_worker threads together
MaxScans == 3          \* scans started by the two scanning threads together
MaxSamples == 2        \* samples handed to one bucket_by_time call
MaxBuckets == 3        \* largest target_width
MaxTime == 8           \* largest timestamp and largest `now`
MaxColumns == 2        \* longest chart series and widest chart
MaxRows == 2           \* tallest chart
MaxPoints == 3         \* longest series handed to tall_sparkline
MaxRecords == 2        \* BSS records in one scan dump

(***************************************************************************)
(* Program constants (config.py).                                          *)
(***************************************************************************)
DEFAULT_WINDOW == 600
\* config.py:47 sets 86400; the model runs the same code with a small ceiling
MAX_DATA_POINTS == MaxRetained

\* seconds between two collector ticks (config.REFRESH_INTERVAL, set from the
\* command line, main.py:87): longer than the window, so that a mask built
\* from the time array does drop entries
RefreshInterval == DEFAULT_WINDOW + 1

HostIds == 1..MaxHosts

VARIABLES
    \* ---- config.py shared state
    time_data, signal_data, rx_rate_data, tx_rate_data, bandwidth_data,
    signal_failed, rates_failed, bandwidth_failed,
    ping_hosts,        \* list of host_info dicts (by identity)
    host,              \* host_info dicts: data, failed, latest, enabled
    paused, paused_at, current_window,
    \* ---- environment
    clock,             \* time.time()
    \* ---- LiveView fields
    last,              \* last_signal, last_rx_rate, last_tx_rate, last_bandwidth
    \* ---- collection thread (or the main thread's initial collect_data)
    c_pc, c_cur, c_i, c_host, c_trim, started,
    \* ---- main thread
    m_pc, m_len, m_new, m_idx, nhosts, nremoves,
    nprobes,           \* probes completed so far (bounds the model)
    \* ---- get_windowed_data locals and result
    r_now, r_time, r_signal, r_rx, r_tx, r_i, r_hosts, view,
    \* ---- history variables (not program state)
    ticks,             \* completed collector ticks
    log,               \* every tuple a tick appended, in order
    stable,            \* hosts in ping_hosts since the current tick began
    appended,          \* hosts whose history the current tick appended to
    trimmed,           \* hosts whose history the current tick trimmed
    \* ---- scan store (core/storage.py) and the two threads that save to it
    day_file,          \* today's JSON file: absent, truncated by open("w"), or a list
    s_pc, s_data, s_scans,   \* per thread: position, scan_data, the local `scans`
    saved,             \* history: snapshots whose save_scan returned True, in order
    nscans,            \* scans started so far (bounds the model)
    \* ---- charts.bucket_by_time: arguments and results of two render calls
    b_values, b_timestamps, b_window_seconds, b_target_width, b_now, b_result,
    b_now2, b_result2, b_pc,
    \* ---- charts.multi_sparkline / multi_sparkline_overlay: arguments and results
    ch_data1, ch_data2, ch_width, ch_height, ch_fixed, ch_multi, ch_overlay,
    \* ---- charts.tall_sparkline: arguments and result
    t_data, t_width, t_height, t_lines,
    \* ---- scanner.scan_channels: the dump, the parser's locals, the snapshot
    p_records,         \* history: the BSS records the dump was printed from
    p_lines, p_band, p_i, p_cur, p_channels, p_pc, p_snapshot,
    p_rec,             \* history: number of the BSS record being read
    p_flushed,         \* history: the records flushed into the aggregate, in order
    \* ---- storage.get_heatmap_data: the call and its locals
    h_band, h_days, h_pc,
    h_row,             \* number of dates done
    h_scans,           \* load_day_scans(date_str) of the date done last
    h_data,            \* the rows of data filled so far
    \* ---- the scan handlers and the day file as the file system holds it
    f_file,            \* today's file: its kind and, for a JSON list, its items
    f_writable,        \* open(filepath, "w") succeeds
    f_mkdir,           \* STORAGE_DIR.mkdir succeeds
    f_n,               \* calls made so far
    f_prev,            \* history: the file and the grid before the last call
    f_result,          \* history: the last call, its inputs and its outcome
    hv_data, hv_scanning,  \* HeatmapView.data (the loaded grid), HeatmapView.scanning
    \* ---- core/ping.py at statement level: the workers, the lock, the host list
    ping_threads_running,
    ping_lock,         \* 0 when free, else the thread holding it
    w_pc,              \* per worker: its position in ping_worker
    k_hosts,           \* config.ping_hosts
    k_enabled, k_latest,   \* host_info["enabled"], host_info["latest"]
    k_c,               \* the collector's host loop: position, iterator index, host_info
    k_m,               \* the main thread: position, index being removed, removals made
    k_ticks,
    k_cnt,             \* history, per host: events after stop_all and after its removal
    k_unlocked,        \* history: the last access to a latest made without the lock
    \* ---- app.py App.run, collection_worker and the scan thread, by position
    running, current_view,
    last_key,          \* key: what get_key returned to the loop last
    run_pc,            \* the main thread's position in App.run
    collecting,
    cw_pc,             \* the collection thread's position in collection_worker
    scan_thread,       \* App.scan_thread: never started, alive or dead
    last_scan_time,
    hv_days, hv_band, hv_dates, hv_channels,   \* HeatmapView fields
    nintervals,        \* scan intervals elapsed so far (bounds the model)
    while_paused       \* history: what was started while config.paused was set

storeVars == <<time_data, signal_data, rx_rate_data, tx_rate_data, bandwidth_data,
               signal_failed, rates_failed, bandwidth_failed>>
hostVars == <<ping_hosts, host>>
collVars == <<c_pc, c_cur, c_i, c_host, c_trim, started>>
mainVars == <<m_pc, m_len, m_new, m_idx, nhosts, nremoves>>
readVars == <<r_now, r_time, r_signal, r_rx, r_tx, r_i, r_hosts, view>>
histVars == <<stable, appended, trimmed>>
scanVars == <<day_file, s_pc, s_data, s_scans, saved, nscans>>
bucketVars == <<b_values, b_timestamps, b_window_seconds, b_target_width, b_now, b_result,
                b_now2, b_result2, b_pc>>
chartVars == <<ch_data1, ch_data2, ch_width, ch_height, ch_fixed, ch_multi, ch_overlay>>
dotVars == <<t_data, t_width, t_height, t_lines>>
parseVars == <<p_records, p_lines, p_band, p_i, p_cur, p_channels, p_pc, p_snapshot,
               p_rec, p_flushed>>
heatVars == <<h_band, h_days, h_pc, h_row, h_scans, h_data>>
fileVars == <<f_file, f_writable, f_mkdir, f_n, f_prev, f_result, hv_data, hv_scanning>>
pingVars == <<ping_threads_running, ping_lock, w_pc, k_hosts, k_enabled, k_latest,
              k_c, k_m, k_ticks, k_cnt, k_unlocked>>
loopVars == <<running, current_view, last_key, run_pc, collecting, cw_pc, scan_thread,
              last_scan_time, hv_days, hv_band, hv_dates, hv_channels, nintervals,
              while_paused>>
lastVars == <<pingVars, loopVars>>
laterVars == <<heatVars, fileVars, lastVars>>
moreVars == <<dotVars, parseVars, laterVars>>
\* the variables of the other specifications
otherVars == <<scanVars, bucketVars, chartVars, moreVars>>
miscVars == <<paused, paused_at, current_window, clock, last, ticks, log, nprobes, histVars,
              otherVars>>

\* the live view's variables, left alone by the other specifications
liveVars == <<storeVars, hostVars, collVars, mainVars, readVars, paused, paused_at,
              current_window, clock, last, ticks, log, nprobes, histVars>>

vars == <<storeVars, hostVars, collVars, mainVars, readVars, miscVars>>

(***************************************************************************)
(* core/net.py get_link_info: the three regex searches succeed or fail     *)
(* independently; an exception (iw missing, no interface) gives four None. *)
(* Each rate match carries its own channel width; the result's width is    *)
(* `rx_bw or tx_bw`.                                                       *)
(***************************************************************************)
get_link_info(raises, signal_match, rx_match, tx_match) ==
    IF raises
    THEN [signal |-> None, rx_rate |-> None, tx_rate |-> None, bandwidth |-> None]
    ELSE [signal    |-> IF signal_match THEN Num(0 - 60) ELSE None,
          rx_rate   |-> IF rx_match THEN Num(100) ELSE None,
          tx_rate   |-> IF tx_match THEN Num(50) ELSE None,
          bandwidth |-> IF rx_match THEN Num(40)
                        ELSE IF tx_match THEN Num(20) ELSE None]

\* the probe results a tick draws from: the command failed (four None), or
\* all three lines matched
LinkOutcomes ==
    {get_link_info(TRUE, FALSE, FALSE, FALSE), get_link_info(FALSE, TRUE, TRUE, TRUE)}

\* ping_worker: float(match.group(1)) if match else None; None on any exception
PingOutcomes == {None, Num(10)}

\* a host_info dict as add_ping_host builds it (ping.py:52-61)
NewHostInfo(current_len) ==
    [data    |-> [i \in 1..current_len |-> NaN],
     failed  |-> [i \in 1..current_len |-> TRUE],
     latest  |-> None,
     enabled |-> TRUE]

NoHost == [data |-> <<>>, failed |-> <<>>, latest |-> None, enabled |-> FALSE]

NoSample == [time |-> 0, signal |-> None, rx_rate |-> None, tx_rate |-> None,
             bandwidth |-> None]

NoView == [signal |-> <<>>, time |-> <<>>, rx |-> <<>>, tx |-> <<>>, hosts |-> <<>>,
           raised |-> FALSE]

\* list.pop(index), 1-based here
PopAt(list, idx) == [j \in 1..(Len(list) - 1) |-> IF j < idx THEN list[j] ELSE list[j + 1]]

(***************************************************************************)
(* The appends and trims of LiveView.collect_data as operators.            *)
(***************************************************************************)
\* a collector that skips a failed metric instead of storing it as missing
AppendMetricSkipNone(arr, x) == IF x = None THEN arr ELSE Append(arr, x)

\* np.append(arr, x if x is not None else np.nan)   live_view.py:49-60,71-73
AppendMetric(arr, x) == Append(arr, OrNaN(x))

\* np.append(failed, x is None)                     live_view.py:63-65,74
AppendFailed(arr, x) == Append(arr, x = None)

\* trim = len(config.time_data) - max_points        live_view.py:78-79
TrimCount(n) == IF n > MAX_DATA_POINTS THEN n - MAX_DATA_POINTS ELSE 0

\* arr = arr[trim:]                                 live_view.py:80-91
Trimmed(arr, trim) == DropFirst(arr, trim)

\* core/storage.py:38  today's file does not exist
NoFile == [state |-> "absent", scans |-> <<>>]

\* app.py:77 the scan thread (background_scan); heatmap_view.py:209 the input thread
Writers == {"scan_thread", "input_thread"}

\* a call that has not been made
NoResult == [raised |-> FALSE, out |-> <<>>]

\* a chart that has not been drawn
NoChart == [drawn |-> FALSE]

InitStore ==
    /\ time_data = <<>> /\ signal_data = <<>> /\ rx_rate_data = <<>>
    /\ tx_rate_data = <<>> /\ bandwidth_data = <<>>
    /\ signal_failed = <<>> /\ rates_failed = <<>> /\ bandwidth_failed = <<>>
    /\ ping_hosts = <<>>
    /\ host = [h \in HostIds |-> NoHost]
    /\ paused = FALSE /\ paused_at = 0
    /\ current_window = DEFAULT_WINDOW
    /\ clock = 0
    /\ last = NoSample
    /\ c_pc = "idle" /\ c_cur = NoSample /\ c_i = 0 /\ c_host = 0
    /\ c_trim = 0 /\ started = FALSE
    /\ m_pc = "setup" /\ m_len = 0 /\ m_new = 0 /\ m_idx = 0
    /\ nhosts = 0 /\ nremoves = 0
    /\ r_now = 0 /\ r_time = <<>> /\ r_signal = <<>> /\ r_rx = <<>> /\ r_tx = <<>>
    /\ r_i = 0 /\ r_hosts = <<>> /\ view = NoView
    /\ ticks = 0 /\ log = <<>> /\ nprobes = 0
    /\ stable = {} /\ appended = {} /\ trimmed = {}

\* no scan file for today yet, both scanning threads idle
InitScan ==
    /\ day_file = NoFile
    /\ s_pc = [w \in Writers |-> "idle"]
    /\ s_data = [w \in Writers |-> None]
    /\ s_scans = [w \in Writers |-> <<>>]
    /\ saved = <<>> /\ nscans = 0

\* no bucketing call made
InitNoBucket ==
    /\ b_values = <<>> /\ b_timestamps = <<>> /\ b_window_seconds = DEFAULT_WINDOW
    /\ b_target_width = 0 /\ b_now = 0 /\ b_now2 = 0
    /\ b_result = NoResult /\ b_result2 = NoResult /\ b_pc = "off"

\* no chart drawn
InitNoChart ==
    /\ ch_data1 = <<>> /\ ch_data2 = <<>> /\ ch_width = 0 /\ ch_height = 1
    /\ ch_fixed = [min |-> None, max |-> None]
    /\ ch_multi = NoChart /\ ch_overlay = NoChart

\* no dot-matrix chart drawn
InitNoDots ==
    /\ t_data = <<>> /\ t_width = 0 /\ t_height = 1 /\ t_lines = NoChart

\* scanner.py:119-122  no entry read yet
NoEntry == [channel |-> None, freq |-> None, ssid |-> None]

\* no dump being parsed
InitNoParse ==
    /\ p_records = <<>> /\ p_lines = <<>> /\ p_band = "2.4" /\ p_i = 0
    /\ p_cur = NoEntry /\ p_channels = <<>> /\ p_pc = "off" /\ p_snapshot = None
    /\ p_rec = 0 /\ p_flushed = <<>>

\* get_heatmap_data not called
InitNoHeat ==
    /\ h_band = "2.4" /\ h_days = 0 /\ h_pc = "off" /\ h_row = 0
    /\ h_scans = <<>> /\ h_data = <<>>

\* the scan handlers not called
InitNoFile ==
    /\ f_file = [kind |-> "absent"] /\ f_writable = TRUE /\ f_mkdir = TRUE /\ f_n = 0
    /\ f_prev = None /\ f_result = None /\ hv_data = None /\ hv_scanning = FALSE

\* no ping worker started
InitNoPing ==
    /\ ping_threads_running = TRUE /\ ping_lock = 0
    /\ w_pc = <<>> /\ k_hosts = <<>> /\ k_enabled = <<>> /\ k_latest = <<>>
    /\ k_c = None /\ k_m = None /\ k_ticks = 0 /\ k_cnt = <<>> /\ k_unlocked = None

\* App.run not entered
InitNoLoop ==
    /\ running = TRUE /\ current_view = "live" /\ last_key = "None" /\ run_pc = "off"
    /\ collecting = TRUE /\ cw_pc = "off" /\ scan_thread = "None" /\ last_scan_time = 0
    /\ hv_days = 7 /\ hv_band = None /\ hv_dates = None /\ hv_channels = None
    /\ nintervals = 0 /\ while_paused = [ticks |-> 0, scans |-> 0]

InitLast == InitNoPing /\ InitNoLoop

InitLater == InitNoHeat /\ InitNoFile /\ InitLast

\* nothing but the live view and the scan store is in use
InitRest == InitNoDots /\ InitNoParse /\ InitLater

Init == InitStore /\ InitScan /\ InitNoBucket /\ InitNoChart /\ InitRest

(***************************************************************************)
(* Collector: app.py collection_worker and LiveView.collect_data.          *)
(***************************************************************************)
\* the tick returns: the worker sleeps, or App.run goes on to start the
\* collection thread and enter its loop (app.py:175-190)
TickDone ==
    /\ c_pc' = "idle"
    /\ ticks' = ticks + 1
    /\ IF started
       THEN UNCHANGED <<started, m_pc>>
       ELSE started' = TRUE /\ m_pc' = "loop"

\* app.py:175  the initial collect_data, on the main thread
InitialCollect ==
    /\ m_pc = "init_collect" /\ c_pc = "idle"
    /\ m_pc' = "init_wait" /\ c_pc' = "collect"
    /\ UNCHANGED <<storeVars, hostVars, c_cur, c_i, c_host, c_trim, started,
                   m_len, m_new, m_idx, nhosts, nremoves, readVars, miscVars>>

\* app.py:82-84  while self.collecting: if not config.paused: collect_data()
WorkerCheck ==
    /\ started /\ c_pc = "idle" /\ ~paused
    /\ Len(log) < MaxTicks
    /\ c_pc' = "collect"
    /\ UNCHANGED <<storeVars, hostVars, c_cur, c_i, c_host, c_trim, started,
                   mainVars, readVars, miscVars>>

\* live_view.py:33-45  paused check, time.time(), get_link_info, last_* fields
CollectBegin ==
    /\ c_pc = "collect"
    /\ IF paused
       THEN /\ c_pc' = "idle"
            /\ UNCHANGED <<c_cur, clock, last, log, histVars>>
       ELSE \E info \in LinkOutcomes :
            /\ clock' = clock + RefreshInterval
            /\ c_cur' = [time |-> clock', signal |-> info.signal, rx_rate |-> info.rx_rate,
                         tx_rate |-> info.tx_rate, bandwidth |-> info.bandwidth]
            /\ last' = [c_cur' EXCEPT !.time = 0]
            /\ log' = Append(log, c_cur')
            /\ stable' = {ping_hosts[j] : j \in 1..Len(ping_hosts)}
            /\ appended' = {} /\ trimmed' = {}
            /\ c_pc' = "a_time"
    /\ UNCHANGED <<storeVars, hostVars, c_i, c_host, c_trim, started,
                   mainVars, readVars, paused, paused_at, current_window, ticks, nprobes, otherVars>>

CollStep(next) ==
    /\ c_pc' = next
    /\ UNCHANGED <<hostVars, c_cur, c_host, c_trim, started,
                   mainVars, readVars, miscVars>>

\* live_view.py:48
AppendTime ==
    /\ c_pc = "a_time"
    /\ time_data' = Append(time_data, c_cur.time)
    /\ CollStep("a_signal")
    /\ UNCHANGED <<signal_data, rx_rate_data, tx_rate_data, bandwidth_data,
                   signal_failed, rates_failed, bandwidth_failed, c_i>>

\* live_view.py:49-51
AppendSignal ==
    /\ c_pc = "a_signal"
    /\ signal_data' = AppendMetric(signal_data, c_cur.signal)
    /\ CollStep("a_rx")
    /\ UNCHANGED <<time_data, rx_rate_data, tx_rate_data, bandwidth_data,
                   signal_failed, rates_failed, bandwidth_failed, c_i>>

\* live_view.py:52-54
AppendRx ==
    /\ c_pc = "a_rx"
    /\ rx_rate_data' = AppendMetric(rx_rate_data, c_cur.rx_rate)
    /\ CollStep("a_tx")
    /\ UNCHANGED <<time_data, signal_data, tx_rate_data, bandwidth_data,
                   signal_failed, rates_failed, bandwidth_failed, c_i>>

\* live_view.py:55-57
AppendTx ==
    /\ c_pc = "a_tx"
    /\ tx_rate_data' = AppendMetric(tx_rate_data, c_cur.tx_rate)
    /\ CollStep("a_rest")
    /\ UNCHANGED <<time_data, signal_data, rx_rate_data, bandwidth_data,
                   signal_failed, rates_failed, bandwidth_failed, c_i>>

\* live_view.py:58-65  bandwidth_data and the three failure-flag arrays; only
\* the collector reads or writes these four, so the four statements are one step
AppendRest ==
    /\ c_pc = "a_rest"
    /\ bandwidth_data' = AppendMetric(bandwidth_data, c_cur.bandwidth)
    /\ signal_failed' = AppendFailed(signal_failed, c_cur.signal)
    /\ rates_failed' = AppendFailed(rates_failed, c_cur.rx_rate)
    /\ bandwidth_failed' = AppendFailed(bandwidth_failed, c_cur.bandwidth)
    /\ c_i' = 0
    /\ CollStep("ping_next")
    /\ UNCHANGED <<time_data, signal_data, rx_rate_data, tx_rate_data>>

\* live_view.py:68  the list iterator of `for host_info in config.ping_hosts`:
\* it keeps an index into the live list and stops when the index is past its end
PingNext ==
    /\ c_pc = "ping_next"
    /\ IF c_i < Len(ping_hosts)
       THEN /\ c_host' = ping_hosts[c_i + 1]
            /\ c_i' = c_i + 1
            /\ c_pc' = "ping_append"
       ELSE /\ c_pc' = "trim_check"
            /\ UNCHANGED <<c_host, c_i>>
    /\ UNCHANGED <<storeVars, hostVars, c_cur, c_trim, started,
                   mainVars, readVars, miscVars>>

\* live_view.py:69-74  latest is read under ping_lock and appended to the
\* host's data and failed arrays.  The prober may store any outcome at any
\* time, so reading and appending in one step loses no reachable state; failed
\* is read by no other thread.
PingAppend ==
    /\ c_pc = "ping_append"
    /\ LET latest == host[c_host].latest IN
       host' = [host EXCEPT ![c_host].data = AppendMetric(@, latest),
                            ![c_host].failed = AppendFailed(@, latest)]
    /\ c_pc' = "ping_next"
    /\ appended' = appended \cup {c_host}
    /\ UNCHANGED <<storeVars, ping_hosts, c_cur, c_i, c_host, c_trim, started,
                   mainVars, readVars, paused, paused_at, current_window, clock, last,
                   ticks, log, nprobes, stable, trimmed, otherVars>>

\* live_view.py:77-79  no trim needed: collect_data returns
TrimCheck ==
    /\ c_pc = "trim_check"
    /\ c_trim' = TrimCount(Len(time_data))
    /\ IF c_trim' > 0
       THEN c_pc' = "t_time" /\ UNCHANGED <<ticks, started, m_pc>>
       ELSE TickDone
    /\ UNCHANGED <<storeVars, hostVars, c_cur, c_i, c_host,
                   m_len, m_new, m_idx, nhosts, nremoves, readVars,
                   paused, paused_at, current_window, clock, last, log, nprobes, histVars, otherVars>>

\* live_view.py:80
TrimTime ==
    /\ c_pc = "t_time"
    /\ time_data' = Trimmed(time_data, c_trim)
    /\ CollStep("t_signal")
    /\ UNCHANGED <<signal_data, rx_rate_data, tx_rate_data, bandwidth_data,
                   signal_failed, rates_failed, bandwidth_failed, c_i>>

\* live_view.py:81
TrimSignal ==
    /\ c_pc = "t_signal"
    /\ signal_data' = Trimmed(signal_data, c_trim)
    /\ CollStep("t_rx")
    /\ UNCHANGED <<time_data, rx_rate_data, tx_rate_data, bandwidth_data,
                   signal_failed, rates_failed, bandwidth_failed, c_i>>

\* live_view.py:82
TrimRx ==
    /\ c_pc = "t_rx"
    /\ rx_rate_data' = Trimmed(rx_rate_data, c_trim)
    /\ CollStep("t_tx")
    /\ UNCHANGED <<time_data, signal_data, tx_rate_data, bandwidth_data,
                   signal_failed, rates_failed, bandwidth_failed, c_i>>

\* live_view.py:83
TrimTx ==
    /\ c_pc = "t_tx"
    /\ tx_rate_data' = Trimmed(tx_rate_data, c_trim)
    /\ CollStep("t_rest")
    /\ UNCHANGED <<time_data, signal_data, rx_rate_data, bandwidth_data,
                   signal_failed, rates_failed, bandwidth_failed, c_i>>

\* live_view.py:84-87  (collector-private arrays, one step)
TrimRest ==
    /\ c_pc = "t_rest"
    /\ bandwidth_data' = Trimmed(bandwidth_data, c_trim)
    /\ signal_failed' = Trimmed(signal_failed, c_trim)
    /\ rates_failed' = Trimmed(rates_failed, c_trim)
    /\ bandwidth_failed' = Trimmed(bandwidth_failed, c_trim)
    /\ c_i' = 0
    /\ CollStep("t_next")
    /\ UNCHANGED <<time_data, signal_data, rx_rate_data, tx_rate_data>>

\* live_view.py:89  second iteration over the live list; at its end the tick is done
TrimHostNext ==
    /\ c_pc = "t_next"
    /\ IF c_i < Len(ping_hosts)
       THEN /\ c_host' = ping_hosts[c_i + 1]
            /\ c_i' = c_i + 1
            /\ c_pc' = "t_host"
            /\ UNCHANGED <<ticks, started, m_pc>>
       ELSE /\ TickDone
            /\ UNCHANGED <<c_host, c_i>>
    /\ UNCHANGED <<storeVars, hostVars, c_cur, c_trim,
                   m_len, m_new, m_idx, nhosts, nremoves, readVars,
                   paused, paused_at, current_window, clock, last, log, nprobes, histVars, otherVars>>

\* live_view.py:90-91
TrimHost ==
    /\ c_pc = "t_host"
    /\ host' = [host EXCEPT ![c_host].data = Trimmed(@, c_trim),
                            ![c_host].failed = Trimmed(@, c_trim)]
    /\ c_pc' = "t_next"
    /\ trimmed' = trimmed \cup {c_host}
    /\ UNCHANGED <<storeVars, ping_hosts, c_cur, c_i, c_host, c_trim, started,
                   mainVars, readVars, paused, paused_at, current_window, clock, last,
                   ticks, log, nprobes, stable, appended, otherVars>>

(***************************************************************************)
(* core/ping.py ping_worker: one thread per host_info, started by          *)
(* add_ping_host; each probe ends by storing its result under ping_lock.   *)
(***************************************************************************)
\* ping.py:22-37
ProbeResult(h) ==
    /\ h <= nhosts
    /\ host[h].enabled
    /\ nprobes < MaxProbes
    /\ nprobes' = nprobes + 1
    /\ \E r \in PingOutcomes :
         /\ r # host[h].latest
         /\ host' = [host EXCEPT ![h].latest = r]
    /\ UNCHANGED <<storeVars, ping_hosts, collVars, mainVars, readVars,
                   paused, paused_at, current_window, clock, last, ticks, log, histVars, otherVars>>

(***************************************************************************)
(* Main thread: App.run.                                                   *)
(***************************************************************************)
\* app.py:46-55  setup_ping_hosts: the gateway when there is one, then 1.1.1.1.
\* No other thread touches the store or the list yet, so the one or two
\* add_ping_host calls are a single step.
SetupPingHosts ==
    /\ m_pc = "setup"
    /\ \E gateway \in BOOLEAN :
         LET n == IF gateway THEN 2 ELSE 1 IN
         /\ n <= MaxHosts
         /\ host' = [h \in HostIds |-> IF h <= n THEN NewHostInfo(Len(time_data))
                                       ELSE host[h]]
         /\ ping_hosts' = [j \in 1..n |-> j]
         /\ nhosts' = n
    /\ m_pc' = "init_collect"
    /\ UNCHANGED <<storeVars, collVars, m_len, m_new, m_idx, nremoves,
                   readVars, miscVars>>

\* ping.py:52-64  current_len = len(config.time_data); the dict is built from
\* it and the worker thread is started
AddHostBegin ==
    /\ m_pc = "loop"
    /\ nhosts < MaxHosts
    /\ m_len' = Len(time_data)
    /\ m_new' = nhosts + 1
    /\ nhosts' = nhosts + 1
    /\ host' = [host EXCEPT ![m_new'] = NewHostInfo(m_len')]
    /\ m_pc' = "add_append"
    /\ UNCHANGED <<storeVars, ping_hosts, collVars, m_idx, nremoves,
                   readVars, miscVars>>

\* ping.py:65  config.ping_hosts.append(host_info)
AddHostAppend ==
    /\ m_pc = "add_append"
    /\ ping_hosts' = Append(ping_hosts, m_new)
    /\ m_pc' = "loop"
    /\ m_len' = 0 /\ m_new' = 0
    /\ UNCHANGED <<storeVars, host, collVars, m_idx, nhosts, nremoves,
                   readVars, miscVars>>

\* app.py:128-133, ping.py:71-72  a valid index: enabled = False
RemoveHostBegin ==
    /\ m_pc = "loop"
    /\ nremoves < MaxRemoves
    /\ \E idx \in 1..Len(ping_hosts) :
         /\ m_idx' = idx
         /\ host' = [host EXCEPT ![ping_hosts[idx]].enabled = FALSE]
    /\ nremoves' = nremoves + 1
    /\ m_pc' = "rm_pop"
    /\ UNCHANGED <<storeVars, ping_hosts, collVars, m_len, m_new, nhosts,
                   readVars, miscVars>>

\* ping.py:73  config.ping_hosts.pop(index)
RemoveHostPop ==
    /\ m_pc = "rm_pop"
    /\ ping_hosts' = PopAt(ping_hosts, m_idx)
    /\ stable' = stable \ {ping_hosts[m_idx]}
    /\ m_idx' = 0
    /\ m_pc' = "loop"
    /\ UNCHANGED <<storeVars, host, collVars, m_len, m_new, nhosts, nremoves,
                   readVars, paused, paused_at, current_window, clock, last,
                   ticks, log, nprobes, appended, trimmed, otherVars>>

\* live_view.py:217-222  key 'p'
TogglePause ==
    /\ m_pc = "loop"
    /\ paused' = ~paused
    /\ paused_at' = IF paused' THEN clock ELSE 0
    /\ UNCHANGED <<storeVars, hostVars, collVars, mainVars, readVars,
                   current_window, clock, last, ticks, log, nprobes, histVars, otherVars>>

(***************************************************************************)
(* LiveView.get_windowed_data (live_view.py:93-134), called by render on   *)
(* the main thread while the collection thread keeps running.              *)
(***************************************************************************)
\* live_view.py:106-111  mask = time_arr >= now - window_seconds
\* (np.ones when the window is None; current_window is always a preset)
MaskOf(time_arr, now, window_seconds) ==
    [i \in 1..Len(time_arr) |-> time_arr[i] >= now - window_seconds]

\* arr[mask] for a boolean mask of the same length
RECURSIVE BoolIndex(_, _)
BoolIndex(arr, mask) ==
    IF arr = <<>> THEN <<>>
    ELSE IF Head(mask)
         THEN <<Head(arr)>> \o BoolIndex(Tail(arr), Tail(mask))
         ELSE BoolIndex(Tail(arr), Tail(mask))

\* numpy: arr[mask] with a boolean mask of another length raises IndexError
UncheckedIndex(arr, mask) ==
    IF Len(arr) = Len(mask)
    THEN [raised |-> FALSE, out |-> BoolIndex(arr, mask)]
    ELSE [raised |-> TRUE, out |-> <<>>]

\* a reader that indexes without the length check
GuardedIndexNoCheck(arr, mask) == UncheckedIndex(arr, mask)

\* live_view.py:115-117,124-127  arr[mask] if len(arr) == mask_len else np.array([])
GuardedIndex(arr, mask) ==
    IF Len(arr) = Len(mask)
    THEN [raised |-> FALSE, out |-> BoolIndex(arr, mask)]
    ELSE [raised |-> FALSE, out |-> <<>>]

r_mask == MaskOf(r_time, r_now, current_window)

\* live_view.py:140-143, 95-96  now; the early return on an empty store
RenderBegin ==
    /\ m_pc = "loop"
    /\ r_now' = IF paused /\ paused_at # 0 THEN paused_at ELSE clock
    /\ IF Len(time_data) = 0
       THEN m_pc' = "r_done"
       ELSE m_pc' = "r_time"
    /\ view' = NoView
    /\ UNCHANGED <<storeVars, hostVars, collVars, m_len, m_new, m_idx, nhosts, nremoves,
                   r_time, r_signal, r_rx, r_tx, r_i, r_hosts, miscVars>>

ReadStep(next) ==
    /\ m_pc' = next
    /\ UNCHANGED <<storeVars, hostVars, collVars, m_len, m_new, m_idx, nhosts, nremoves,
                   r_now, r_i, r_hosts, view, miscVars>>

\* live_view.py:101
ReadTime ==
    /\ m_pc = "r_time"
    /\ r_time' = time_data
    /\ ReadStep("r_signal")
    /\ UNCHANGED <<r_signal, r_rx, r_tx>>

\* live_view.py:102
ReadSignal ==
    /\ m_pc = "r_signal"
    /\ r_signal' = signal_data
    /\ ReadStep("r_rx")
    /\ UNCHANGED <<r_time, r_rx, r_tx>>

\* live_view.py:103
ReadRx ==
    /\ m_pc = "r_rx"
    /\ r_rx' = rx_rate_data
    /\ ReadStep("r_tx")
    /\ UNCHANGED <<r_time, r_signal, r_tx>>

\* live_view.py:104
ReadTx ==
    /\ m_pc = "r_tx"
    /\ r_tx' = tx_rate_data
    /\ ReadStep("r_hosts")
    /\ UNCHANGED <<r_time, r_signal, r_rx>>

\* live_view.py:121-132  one host per step: ping_data = host_info["data"],
\* the length check, the masked copy.  At the end of the list, lines 113-117
\* and 134: the masked global arrays and the return.
ReadHost ==
    /\ m_pc = "r_hosts"
    /\ IF r_i < Len(ping_hosts)
       THEN LET ping_data == host[ping_hosts[r_i + 1]].data
                res == GuardedIndex(ping_data, r_mask)
            IN /\ r_hosts' = Append(r_hosts, [arr |-> ping_data, data |-> res.out,
                                              latest |-> host[ping_hosts[r_i + 1]].latest,
                                              raised |-> res.raised])
               /\ r_i' = r_i + 1
               /\ UNCHANGED <<m_pc, view>>
       ELSE LET t == UncheckedIndex(r_time, r_mask)
                s == GuardedIndex(r_signal, r_mask)
                x == GuardedIndex(r_rx, r_mask)
                y == GuardedIndex(r_tx, r_mask)
            IN /\ view' = [signal |-> s.out, time |-> t.out, rx |-> x.out, tx |-> y.out,
                           hosts |-> [j \in 1..Len(r_hosts) |->
                                        [data |-> r_hosts[j].data,
                                         latest |-> r_hosts[j].latest]],
                           raised |-> \/ t.raised \/ s.raised \/ x.raised \/ y.raised
                                      \/ \E j \in 1..Len(r_hosts) : r_hosts[j].raised]
               /\ m_pc' = "r_done"
               /\ UNCHANGED <<r_i, r_hosts>>
    /\ UNCHANGED <<storeVars, hostVars, collVars, m_len, m_new, m_idx, nhosts, nremoves,
                   r_now, r_time, r_signal, r_rx, r_tx, miscVars>>

\* the view has been drawn; the loop polls the next key (app.py:190-206)
RenderReturn ==
    /\ m_pc = "r_done"
    /\ m_pc' = "loop"
    /\ r_now' = 0 /\ r_time' = <<>> /\ r_signal' = <<>> /\ r_rx' = <<>> /\ r_tx' = <<>>
    /\ r_i' = 0 /\ r_hosts' = <<>> /\ view' = NoView
    /\ UNCHANGED <<storeVars, hostVars, collVars, m_len, m_new, m_idx, nhosts, nremoves,
                   miscVars>>

Collector ==
    \/ InitialCollect \/ WorkerCheck \/ CollectBegin
    \/ AppendTime \/ AppendSignal \/ AppendRx \/ AppendTx \/ AppendRest
    \/ PingNext \/ PingAppend
    \/ TrimCheck \/ TrimTime \/ TrimSignal \/ TrimRx \/ TrimTx \/ TrimRest
    \/ TrimHostNext \/ TrimHost

Probers == \E h \in HostIds : ProbeResult(h)

\* the keys handled between two renders (app.py:190-203)
Control ==
    \/ AddHostBegin \/ AddHostAppend
    \/ RemoveHostBegin \/ RemoveHostPop
    \/ TogglePause

Reader ==
    \/ RenderBegin \/ ReadTime \/ ReadSignal \/ ReadRx \/ ReadTx \/ ReadHost
    \/ RenderReturn

(***************************************************************************)
(* Spec: the collector, the probers and the main thread's host and pause   *)
(* keys.  SpecRead: the collector, the probers and the main thread's       *)
(* renders.  (Keys and renders alternate on one thread; they are checked   *)
(* apart to keep both state spaces small.)                                 *)
(***************************************************************************)
Next == Collector \/ SetupPingHosts \/ Control \/ Probers

Spec == Init /\ [][Next]_vars

NextRead == Collector \/ SetupPingHosts \/ Reader \/ Probers

SpecRead == Init /\ [][NextRead]_vars

(***************************************************************************)
(* Properties of the store (Spec, SpecRead).                               *)
(***************************************************************************)
\* no collector tick is in progress: the worker sleeps, or has only passed
\* its paused check
Quiescent == c_pc \in {"idle", "collect"}

GlobalArrays == <<time_data, signal_data, rx_rate_data, tx_rate_data, bandwidth_data,
                  signal_failed, rates_failed, bandwidth_failed>>

ActiveHosts == {ping_hosts[j] : j \in 1..Len(ping_hosts)}

\* what the ticks appended, as the columns of the store
LogColumn(f) == [i \in 1..Len(log) |-> OrNaN(log[i][f])]
LogFailed(f) == [i \in 1..Len(log) |-> log[i][f] = None]
LogTime == [i \in 1..Len(log) |-> log[i].time]

\* C1: between ticks the time, signal, rx, tx, bandwidth and the three
\* failure-flag arrays have one common length, which is the number of
\* completed ticks capped at the retention ceiling (every tick appended one
\* entry to each, probe failure or not), and an entry flagged as failed is
\* stored as missing.
C1_AlignedBetweenTicks ==
    Quiescent =>
        /\ \A a \in 1..Len(GlobalArrays) : Len(GlobalArrays[a]) = Len(time_data)
        /\ Len(time_data) = Min(ticks, MAX_DATA_POINTS)
        /\ Len(log) = ticks
        /\ \A i \in 1..Len(time_data) :
              /\ signal_failed[i] => IsNaN(signal_data[i])
              /\ rates_failed[i] => IsNaN(rx_rate_data[i])
              /\ bandwidth_failed[i] => IsNaN(bandwidth_data[i])

\* more ticks than the ceiling have completed, one with a failed probe and
\* one with a successful probe are retained
C1_Witness ==
    /\ Quiescent
    /\ ticks > MAX_DATA_POINTS
    /\ \E i, j \in 1..Len(time_data) :
          /\ signal_failed[i] /\ IsNaN(signal_data[i])
          /\ ~signal_failed[j] /\ ~IsNaN(signal_data[j])

\* C2 (the claim as stated): add_host backfills exactly as many missing
\* entries as ticks are recorded, and from then on, between ticks, the
\* history of every host in the list is as long as the time array - for
\* every interleaving of add_host with a collector tick (behaviours without
\* any remove_host are enough to refute it).
C2_AddedHostAligned ==
    nremoves = 0 =>
        /\ m_pc = "add_append" => host[m_new].data = [i \in 1..m_len |-> NaN]
        /\ Quiescent =>
              \A h \in ActiveHosts : Len(host[h].data) = Len(time_data)

\* C3 (the claim as stated): between ticks every global array holds exactly
\* the last min(T, N) tuples the ticks appended, in order, and a tick that
\* trimmed has trimmed the history of every host that was in the active set
\* during the whole tick.
C3_Retention ==
    Quiescent =>
        /\ Len(time_data) = Min(ticks, MAX_DATA_POINTS)
        /\ time_data = LastN(LogTime, MAX_DATA_POINTS)
        /\ signal_data = LastN(LogColumn("signal"), MAX_DATA_POINTS)
        /\ rx_rate_data = LastN(LogColumn("rx_rate"), MAX_DATA_POINTS)
        /\ tx_rate_data = LastN(LogColumn("tx_rate"), MAX_DATA_POINTS)
        /\ bandwidth_data = LastN(LogColumn("bandwidth"), MAX_DATA_POINTS)
        /\ signal_failed = LastN(LogFailed("signal"), MAX_DATA_POINTS)
        /\ rates_failed = LastN(LogFailed("rx_rate"), MAX_DATA_POINTS)
        /\ bandwidth_failed = LastN(LogFailed("bandwidth"), MAX_DATA_POINTS)
        /\ (c_pc = "idle" /\ c_trim > 0) => stable \subseteq trimmed

\* the retention of the global arrays alone
C3_GlobalRetention ==
    Quiescent =>
        /\ Len(time_data) = Min(ticks, MAX_DATA_POINTS)
        /\ time_data = LastN(LogTime, MAX_DATA_POINTS)
        /\ signal_data = LastN(LogColumn("signal"), MAX_DATA_POINTS)
        /\ rx_rate_data = LastN(LogColumn("rx_rate"), MAX_DATA_POINTS)
        /\ tx_rate_data = LastN(LogColumn("tx_rate"), MAX_DATA_POINTS)
        /\ bandwidth_data = LastN(LogColumn("bandwidth"), MAX_DATA_POINTS)

\* the number of entries a mask keeps among its first i
KeptUpTo(mask, i) == Cardinality({m \in 1..i : mask[m]})

\* out is arr filtered by mask: the kept entries, in their order
IsFilterOf(out, arr, mask) ==
    /\ Len(out) = KeptUpTo(mask, Len(mask))
    /\ \A i \in 1..Len(arr) : mask[i] => out[KeptUpTo(mask, i)] = arr[i]

GuardedResult(out, arr, mask) ==
    IF Len(arr) = Len(mask) THEN IsFilterOf(out, arr, mask) ELSE out = <<>>

\* C4: when get_windowed_data returns, nothing was raised, and for each of
\* the signal, rx, tx and per-host arrays the result is empty if the array
\* it read differs in length from the mask built from the time array, and
\* is the array filtered by the mask otherwise.
C4_LengthGuard ==
    m_pc = "r_done" =>
        /\ ~view.raised
        /\ GuardedResult(view.signal, r_signal, r_mask)
        /\ GuardedResult(view.rx, r_rx, r_mask)
        /\ GuardedResult(view.tx, r_tx, r_mask)
        /\ Len(view.hosts) = Len(r_hosts)
        /\ \A j \in 1..Len(r_hosts) :
              GuardedResult(view.hosts[j].data, r_hosts[j].arr, r_mask)

\* a read that raced with a tick: the signal array and a host history differ
\* in length from the mask and come back empty, the rx array agrees and comes
\* back filtered, the mask dropping an entry
C4_Witness ==
    /\ m_pc = "r_done"
    /\ Len(r_signal) # Len(r_mask) /\ view.signal = <<>>
    /\ Len(r_rx) = Len(r_mask) /\ view.rx # <<>> /\ Len(view.rx) < Len(r_rx)
    /\ \E j \in 1..Len(r_hosts) :
          Len(r_hosts[j].arr) # Len(r_mask) /\ view.hosts[j].data = <<>>

(***************************************************************************)
(* Scan store: core/storage.py save_scan, called by App.background_scan on *)
(* the scan thread and by HeatmapView.trigger_scan on the input thread.    *)
(* save_scan takes no lock; one step below is one file-system operation.   *)
(* A snapshot is represented by the number of the scan that produced it.   *)
(***************************************************************************)
SetPc(w, next) == s_pc' = [s_pc EXCEPT ![w] = next]

\* app.py:62-63, heatmap_view.py:42-43  scan_result = scanner.scan_channels(...);
\* a falsy result is not saved
ScanChannels(w) ==
    /\ s_pc[w] = "idle" /\ nscans < MaxScans
    /\ nscans' = nscans + 1
    /\ \E found \in BOOLEAN :
          IF found
          THEN s_data' = [s_data EXCEPT ![w] = nscans'] /\ SetPc(w, "save")
          ELSE UNCHANGED <<s_data, s_pc>>
    /\ UNCHANGED <<day_file, s_scans, saved, liveVars, bucketVars, chartVars, moreVars>>

\* storage.py:33-38  scans = []; if filepath.exists()
SaveBegin(w) ==
    /\ s_pc[w] = "save"
    /\ s_scans' = [s_scans EXCEPT ![w] = <<>>]
    /\ SetPc(w, IF day_file.state = "absent" THEN "append" ELSE "load")
    /\ UNCHANGED <<day_file, s_data, saved, nscans, liveVars, bucketVars, chartVars, moreVars>>

\* storage.py:39-43  json.load; a file that does not parse gives scans = []
SaveLoad(w) ==
    /\ s_pc[w] = "load"
    /\ s_scans' = [s_scans EXCEPT ![w] =
                      IF day_file.state = "json" THEN day_file.scans ELSE <<>>]
    /\ SetPc(w, "append")
    /\ UNCHANGED <<day_file, s_data, saved, nscans, liveVars, bucketVars, chartVars, moreVars>>

\* storage.py:46  scans.append(scan_data)
SaveAppend(w) ==
    /\ s_pc[w] = "append"
    /\ s_scans' = [s_scans EXCEPT ![w] = Append(@, s_data[w])]
    /\ SetPc(w, "open")
    /\ UNCHANGED <<day_file, s_data, saved, nscans, liveVars, bucketVars, chartVars, moreVars>>

\* storage.py:49-50,53-54  open(filepath, "w") truncates the file, or raises
\* IOError and save_scan returns False
SaveOpen(w) ==
    /\ s_pc[w] = "open"
    /\ \E opened \in BOOLEAN :
          IF opened
          THEN /\ day_file' = [state |-> "truncated", scans |-> <<>>]
               /\ SetPc(w, "dump")
               /\ UNCHANGED <<s_data, s_scans>>
          ELSE /\ SetPc(w, "idle")
               /\ s_data' = [s_data EXCEPT ![w] = None]
               /\ s_scans' = [s_scans EXCEPT ![w] = <<>>]
               /\ UNCHANGED day_file
    /\ UNCHANGED <<saved, nscans, liveVars, bucketVars, chartVars, moreVars>>

\* storage.py:51-52  json.dump(scans, f); the file closes; return True
SaveDump(w) ==
    /\ s_pc[w] = "dump"
    /\ day_file' = [state |-> "json", scans |-> s_scans[w]]
    /\ saved' = Append(saved, s_data[w])
    /\ SetPc(w, "idle")
    /\ s_data' = [s_data EXCEPT ![w] = None]
    /\ s_scans' = [s_scans EXCEPT ![w] = <<>>]
    /\ UNCHANGED <<nscans, liveVars, bucketVars, chartVars, moreVars>>

Scanning == \E w \in Writers : ScanChannels(w)
Saving == \E w \in Writers :
             SaveBegin(w) \/ SaveLoad(w) \/ SaveAppend(w) \/ SaveOpen(w) \/ SaveDump(w)

NextScan == Scanning \/ Saving
SpecScan == Init /\ [][NextScan]_vars

\* C5: whenever today's file holds a list (no writer has it truncated), the
\* list is exactly the snapshots saved so far, each unmodified and in save
\* order: every save appended its snapshot and none replaced or dropped an
\* earlier one, also when the scan thread and the input thread save at once.
C5_AppendOnly ==
    day_file.state = "json" => day_file.scans = saved

(***************************************************************************)
(* charts.bucket_by_time.  bucket_duration = window_seconds / target_width *)
(* is in general not an integer, so every time below is held multiplied by *)
(* target_width: the comparisons of the code are then exact integer        *)
(* comparisons.  Timestamps and `now` are whole seconds; the rounding of   *)
(* the float arithmetic is not modelled.  A mean is held as the exact      *)
(* fraction sum / count.                                                   *)
(***************************************************************************)
SeqsUpTo(S, n) == UNION {[1..k -> S] : k \in 0..n}

TimeStamps == 3..MaxTime
Nows == (MaxTime - 2)..MaxTime
Windows == {4, 6}
SampleValues == {NaN, Num(0), Num(3)}

\* np.full(target_width, np.nan)                          charts.py:62,75
FullNaN(n) == [i \in 1..n |-> NaN]

\* np.ceil(a / b) for b > 0
CeilDiv(a, b) == -((-a) \div b)

\* a window ending at `now` itself, without the snap to a bucket boundary
WindowEndUnsnapped(now, window_seconds, target_width) == now * target_width

\* charts.py:72  window_end = np.ceil(now / bucket_duration) * bucket_duration
WindowEnd(now, window_seconds, target_width) ==
    CeilDiv(now * target_width, window_seconds) * window_seconds

\* charts.py:73  window_start = window_end - window_seconds
WindowStart(now, window_seconds, target_width) ==
    WindowEnd(now, window_seconds, target_width) - window_seconds * target_width

\* charts.py:78  bucket_start = window_start + i * bucket_duration   (i from 0)
BucketStart(now, window_seconds, target_width, i) ==
    WindowStart(now, window_seconds, target_width) + i * window_seconds

\* charts.py:79  bucket_end = bucket_start + bucket_duration
BucketEnd(now, window_seconds, target_width, i) ==
    BucketStart(now, window_seconds, target_width, i) + window_seconds

\* a bucket closed at both ends
InBucketClosed(t, bucket_start, bucket_end) == t >= bucket_start /\ t <= bucket_end

\* charts.py:82  (timestamps >= bucket_start) & (timestamps < bucket_end)
InBucket(t, bucket_start, bucket_end) == t >= bucket_start /\ t < bucket_end

\* charts.py:82  the mask of bucket i
BucketMask(timestamps, window_seconds, target_width, now, i) ==
    [j \in 1..Len(timestamps) |->
        InBucket(timestamps[j] * target_width,
                 BucketStart(now, window_seconds, target_width, i),
                 BucketEnd(now, window_seconds, target_width, i))]

RECURSIVE SumSeq(_)
SumSeq(s) == IF s = <<>> THEN 0 ELSE Head(s).v + SumSeq(Tail(s))

\* charts.py:87  np.mean(valid)
Mean(valid) == [k |-> "mean", sum |-> SumSeq(valid), n |-> Len(valid)]

\* charts.py:83-87  one bucket: values[mask], drop NaN, mean if any is left
BucketValue(values, timestamps, window_seconds, target_width, now, i) ==
    LET mask == BucketMask(timestamps, window_seconds, target_width, now, i)
        bucket_values == BoolIndex(values, mask)
        valid == SelectSeq(bucket_values, LAMBDA x : ~IsNaN(x))
    IN  IF Len(valid) > 0 THEN Mean(valid) ELSE NaN

\* charts.py:45-89
\*   line 61-62: empty values or timestamps give target_width NaN
\*   line 67: window_seconds / target_width raises ZeroDivisionError for 0
\*   line 83: values[mask] raises IndexError when the lengths differ
bucket_by_time(values, timestamps, window_seconds, target_width, now) ==
    IF Len(values) = 0 \/ Len(timestamps) = 0
    THEN [raised |-> FALSE, out |-> FullNaN(target_width)]
    ELSE IF target_width = 0 \/ Len(values) # Len(timestamps)
    THEN [raised |-> TRUE, out |-> <<>>]
    ELSE [raised |-> FALSE,
          out |-> [i \in 1..target_width |->
                      BucketValue(values, timestamps, window_seconds,
                                  target_width, now, i - 1)]]

\* the arguments of the call: any samples (unsorted, with NaN), the values
\* possibly emptied by get_windowed_data's length guard, any width from 0
InitBucket ==
    /\ InitStore /\ InitScan /\ InitNoChart /\ InitRest
    /\ b_timestamps \in SeqsUpTo(TimeStamps, MaxSamples)
    /\ b_values \in {v \in SeqsUpTo(SampleValues, MaxSamples) :
                        Len(v) \in {0, Len(b_timestamps)}}
    /\ b_window_seconds \in Windows
    /\ b_target_width \in 0..MaxBuckets
    /\ b_now \in Nows /\ b_now2 = b_now
    /\ b_result = NoResult /\ b_result2 = NoResult
    /\ b_pc = "ready"

\* components.py:43  a render call buckets the series
BucketCall ==
    /\ b_pc = "ready"
    /\ b_result' = bucket_by_time(b_values, b_timestamps, b_window_seconds,
                                  b_target_width, b_now)
    /\ b_pc' = "first"
    /\ UNCHANGED <<b_values, b_timestamps, b_window_seconds, b_target_width, b_now,
                   b_now2, b_result2, liveVars, scanVars, chartVars, moreVars>>

\* the next render call buckets the same samples at a later or equal `now`
BucketAgain ==
    /\ b_pc = "first"
    /\ \E now \in Nows :
          /\ b_now2' = now
          /\ b_result2' = bucket_by_time(b_values, b_timestamps, b_window_seconds,
                                         b_target_width, now)
    /\ b_pc' = "second"
    /\ UNCHANGED <<b_values, b_timestamps, b_window_seconds, b_target_width, b_now,
                   b_result, liveVars, scanVars, chartVars, moreVars>>

NextBucket == BucketCall \/ BucketAgain
SpecBucket == InitBucket /\ [][NextBucket]_vars

\* C6: for every window, bucket count and input the call returns exactly
\* target_width values without raising, all of them missing when the values
\* or the timestamps are empty.
C6_ExactlyB ==
    b_pc # "ready" =>
        /\ ~b_result.raised
        /\ Len(b_result.out) = b_target_width
        /\ (Len(b_values) = 0 \/ Len(b_timestamps) = 0) =>
               \A i \in 1..b_target_width : b_result.out[i] = NaN

\* `now` lies in slot k: (k-1)*d < now <= k*d, with d = window / width
InSlot(now, k) ==
    /\ (k - 1) * b_window_seconds < now * b_target_width
    /\ now * b_target_width <= k * b_window_seconds

SameSlot == \E k \in 0..(MaxTime * b_target_width) : InSlot(b_now, k) /\ InSlot(b_now2, k)

\* C7: two calls whose `now` lie in the same slot ((k-1)*d, k*d] use the
\* same B bucket intervals and return the same B values for the same samples.
C7_StableBoundaries ==
    (b_pc = "second" /\ b_target_width >= 1 /\ SameSlot) =>
        /\ b_result2 = b_result
        /\ \A i \in 0..(b_target_width - 1) :
              /\ BucketStart(b_now, b_window_seconds, b_target_width, i)
                   = BucketStart(b_now2, b_window_seconds, b_target_width, i)
              /\ BucketEnd(b_now, b_window_seconds, b_target_width, i)
                   = BucketEnd(b_now2, b_window_seconds, b_target_width, i)

\* two different `now` in one slot, with a sample that landed in a bucket
C7_Witness ==
    /\ b_pc = "second" /\ b_target_width >= 2 /\ SameSlot /\ b_now # b_now2
    /\ ~b_result.raised
    /\ \E i \in 1..b_target_width : b_result.out[i] # NaN
    /\ \E i \in 1..b_target_width : b_result.out[i] = NaN

\* the right edge of the window: the least multiple of d that is >= now
RightEdge ==
    b_window_seconds *
        (CHOOSE k \in 0..(MaxTime * b_target_width) :
            /\ k * b_window_seconds >= b_now * b_target_width
            /\ (k - 1) * b_window_seconds < b_now * b_target_width)

\* indices of the present samples whose timestamp lies in bucket i (1..B),
\* [edge - (B-i+1)*d, edge - (B-i)*d)
Members(i) ==
    {j \in 1..Len(b_timestamps) :
        /\ ~IsNaN(b_values[j])
        /\ b_timestamps[j] * b_target_width
             >= RightEdge - (b_target_width - i + 1) * b_window_seconds
        /\ b_timestamps[j] * b_target_width
             < RightEdge - (b_target_width - i) * b_window_seconds}

RECURSIVE SumOver(_)
SumOver(S) == IF S = {} THEN 0
              ELSE LET j == CHOOSE x \in S : TRUE IN b_values[j].v + SumOver(S \ {j})

Bucketed == b_pc # "ready" /\ ~b_result.raised /\ b_target_width >= 1 /\ Len(b_values) > 0

\* C8: a bucket's value is the mean of the present samples whose timestamp
\* is in [bucket_start, bucket_end); a bucket without one is missing, never
\* 0; no sample is counted in two buckets.
C8_BucketMean ==
    Bucketed =>
        /\ \A i \in 1..b_target_width :
              b_result.out[i] = IF Members(i) = {} THEN NaN
                                ELSE [k |-> "mean", sum |-> SumOver(Members(i)),
                                      n |-> Cardinality(Members(i))]
        /\ \A j \in 1..Len(b_timestamps) :
              Cardinality({i \in 0..(b_target_width - 1) :
                  BucketMask(b_timestamps, b_window_seconds, b_target_width,
                             b_now, i)[j]}) <= 1

\* one bucket averages two present samples, one of them 0, another bucket
\* is missing
C8_Witness ==
    /\ Bucketed
    /\ \E i \in 1..b_target_width :
          /\ Cardinality(Members(i)) = 2
          /\ b_result.out[i] = [k |-> "mean", sum |-> 3, n |-> 2]
    /\ \E i \in 1..b_target_width : b_result.out[i] = NaN

(***************************************************************************)
(* charts.multi_sparkline and charts.multi_sparkline_overlay.  Values are  *)
(* whole numbers, so the quotient the code truncates with astype(int) is   *)
(* an exact integer division; float rounding is not modelled.  A chart is  *)
(* a list of rows, top row first, each a list of (char, color) cells.  The *)
(* results also carry the arrays the functions compute on the way.         *)
(***************************************************************************)
\* charts.py:7
SPARK_CHARS == <<" ", "▋", "▋", "▋", "▋", "▋", "▋", "▋", "▋">>
\* charts.py:96
FULL_BLOCK == "▋"

BlankCell == <<" ", "dim">>

\* charts.py:194,197  [empty_row] * height
EmptyRows(width, height) == [r \in 1..height |-> [c \in 1..width |-> BlankCell]]

EmptyChart(width, height) ==
    [drawn |-> TRUE, rows |-> EmptyRows(width, height), levels |-> FALSE]

\* data[~nan_mask]
Present(data) == SelectSeq(data, LAMBDA x : ~IsNaN(x))

RECURSIVE MinOf(_)
MinOf(s) == IF Len(s) = 1 THEN s[1] ELSE Min(s[1], MinOf(Tail(s)))
RECURSIVE MaxOf(_)
MaxOf(s) == IF Len(s) = 1 THEN s[1] ELSE Max(s[1], MaxOf(Tail(s)))

\* the numbers of a series without NaN
Vals(s) == [i \in 1..Len(s) |-> s[i].v]

\* data[-width:] when len(data) > width
Truncate(data, width) == IF Len(data) > width THEN LastN(data, width) ELSE data

\* np.concatenate([np.full(max_len - len(data), np.nan), data])
PadLeft(data, max_len) == [i \in 1..(max_len - Len(data)) |-> NaN] \o data

\* np.clip(v, lo, hi)
Clip(v, lo, hi) == Min(Max(v, lo), hi)

\* the same scale rounded to the nearest level instead of truncated
QuantizeRounded(v, min_val, max_val, max_level) ==
    IF max_val = min_val
    THEN max_level \div 2
    ELSE Clip((2 * (Clip(v, min_val, max_val) - min_val) * max_level + (max_val - min_val))
                 \div (2 * (max_val - min_val)), 0, max_level)

\* charts.py:229-236, 347-359  clip to the range, scale to 0..max_level,
\* astype(int), clip; max_level // 2 when the range is empty
Quantize(v, min_val, max_val, max_level) ==
    IF max_val = min_val
    THEN max_level \div 2
    ELSE Clip(((Clip(v, min_val, max_val) - min_val) * max_level) \div (max_val - min_val),
              0, max_level)

\* a chart whose bar starts one level late: level row_min leaves the row blank
MultiCellLate(n, row_min, row_max, color) ==
    IF n <= row_min THEN BlankCell
    ELSE IF n >= row_max THEN <<FULL_BLOCK, color>>
    ELSE <<SPARK_CHARS[(n - row_min + 1) + 1], color>>

\* charts.py:267-280  one cell of a single-series chart
MultiCell(n, row_min, row_max, color) ==
    IF n < row_min THEN BlankCell
    ELSE IF n >= row_max THEN <<FULL_BLOCK, color>>
    ELSE <<SPARK_CHARS[(n - row_min + 1) + 1], color>>

\* charts.py:177-282, called without color_func (every bar "cyan")
multi_sparkline(data, width, height, fixed_min, fixed_max) ==
    IF Len(data) = 0 \/ Len(Present(data)) = 0
    THEN EmptyChart(width, height)
    ELSE
    LET d == Truncate(data, width)
        valid_vals == Vals(Present(d))
    IN  IF Len(valid_vals) = 0
        THEN EmptyChart(width, height)
        ELSE
        LET data_min == MinOf(valid_vals)
            clean_data == [i \in 1..Len(d) |-> IF IsNaN(d[i]) THEN data_min ELSE d[i].v]
            min_val == IF fixed_min # None THEN fixed_min.v ELSE MinOf(clean_data)
            max_val == IF fixed_max # None THEN fixed_max.v ELSE MaxOf(clean_data)
            max_level == height * 8 - 1
            normalized == [i \in 1..Len(d) |->
                              Quantize(clean_data[i], min_val, max_val, max_level)]
            pad_count == IF Len(normalized) < width THEN width - Len(normalized) ELSE 0
        IN  [drawn |-> TRUE, levels |-> TRUE,
             data |-> d, min_val |-> min_val, max_val |-> max_val,
             normalized |-> normalized, pad_count |-> pad_count,
             rows |-> [row_idx \in 1..height |->
                        [c \in 1..(pad_count + Len(d)) |->
                          IF c <= pad_count \/ IsNaN(d[c - pad_count])
                          THEN BlankCell
                          ELSE MultiCell(normalized[c - pad_count],
                                         (height - row_idx) * 8,
                                         (height - row_idx) * 8 + 7, "cyan")]]]

\* an overlay in which a partial base block always hides the top series
OverlayCellBaseFirst(n1, n2, row_min, row_max, color1, color2) ==
    IF n1 < row_min /\ n2 < row_min THEN BlankCell
    ELSE IF n2 >= row_max THEN <<FULL_BLOCK, color2>>
    ELSE IF n2 >= row_min THEN <<SPARK_CHARS[(n2 - row_min + 1) + 1], color2>>
    ELSE IF n1 >= row_max THEN <<FULL_BLOCK, color1>>
    ELSE IF n1 >= row_min THEN <<SPARK_CHARS[(n1 - row_min + 1) + 1], color1>>
    ELSE BlankCell

\* an overlay in which the top series wins every row it reaches
OverlayCellTopFirst(n1, n2, row_min, row_max, color1, color2) ==
    IF n1 < row_min /\ n2 < row_min THEN BlankCell
    ELSE IF n1 >= row_max THEN <<FULL_BLOCK, color1>>
    ELSE IF n1 >= row_min THEN <<SPARK_CHARS[(n1 - row_min + 1) + 1], color1>>
    ELSE IF n2 >= row_max THEN <<FULL_BLOCK, color2>>
    ELSE <<SPARK_CHARS[(n2 - row_min + 1) + 1], color2>>

\* charts.py:384-402  one cell of the overlay: n1 is data1's level, n2 data2's
OverlayCell(n1, n2, row_min, row_max, color1, color2) ==
    IF n1 < row_min /\ n2 < row_min THEN BlankCell
    ELSE IF n2 >= row_max THEN <<FULL_BLOCK, color2>>
    ELSE IF n2 >= row_min /\ n1 <= n2
         THEN <<SPARK_CHARS[(n2 - row_min + 1) + 1], color2>>
    ELSE IF n1 >= row_max THEN <<FULL_BLOCK, color1>>
    ELSE IF n1 >= row_min THEN <<SPARK_CHARS[(n1 - row_min + 1) + 1], color1>>
    ELSE BlankCell

\* charts.py:285-406
multi_sparkline_overlay(data1, data2, width, height, color1, color2, fixed_min, fixed_max) ==
    IF Len(data1) = 0 /\ Len(data2) = 0
    THEN EmptyChart(width, height)
    ELSE
    LET t1 == Truncate(data1, width)
        t2 == Truncate(data2, width)
        max_len == Max(Len(t1), Len(t2))
        d1 == PadLeft(t1, max_len)
        d2 == PadLeft(t2, max_len)
        all_valid == Vals(Present(d1)) \o Vals(Present(d2))
    IN  IF Len(all_valid) = 0
        THEN EmptyChart(width, height)
        ELSE
        LET min_val == IF fixed_min # None THEN fixed_min.v ELSE MinOf(all_valid)
            max_val == IF fixed_max # None THEN fixed_max.v ELSE MaxOf(all_valid)
            max_level == height * 8 - 1
            norm(d) == [i \in 1..max_len |->
                          Quantize(IF IsNaN(d[i]) THEN min_val ELSE d[i].v,
                                   min_val, max_val, max_level)]
            n1 == [i \in 1..max_len |-> IF IsNaN(d1[i]) THEN -1 ELSE norm(d1)[i]]
            n2 == [i \in 1..max_len |-> IF IsNaN(d2[i]) THEN -1 ELSE norm(d2)[i]]
            pad_count == IF max_len < width THEN width - max_len ELSE 0
        IN  [drawn |-> TRUE, levels |-> TRUE,
             data1 |-> d1, data2 |-> d2, min_val |-> min_val, max_val |-> max_val,
             n1 |-> n1, n2 |-> n2, pad_count |-> pad_count,
             rows |-> [row_idx \in 1..height |->
                        [c \in 1..(pad_count + max_len) |->
                          IF c <= pad_count
                          THEN BlankCell
                          ELSE OverlayCell(n1[c - pad_count], n2[c - pad_count],
                                           (height - row_idx) * 8,
                                           (height - row_idx) * 8 + 7,
                                           color1, color2)]]]

ChartValues == {NaN, Num(-1), Num(0), Num(3), Num(4), Num(5)}
FixedRanges == {[min |-> None, max |-> None], [min |-> Num(0), max |-> Num(4)]}

\* the arguments: two bucketed series (with missing buckets), a chart
\* geometry, and the fixed scale of the panel or none
InitChart ==
    /\ InitStore /\ InitScan /\ InitNoBucket /\ InitRest
    /\ ch_data1 \in SeqsUpTo(ChartValues, MaxColumns)
    /\ ch_data2 \in SeqsUpTo(ChartValues, MaxColumns)
    /\ ch_width \in (MaxColumns - 1)..MaxColumns
    /\ ch_height \in 1..MaxRows
    /\ ch_fixed \in FixedRanges
    /\ ch_multi = NoChart /\ ch_overlay = NoChart

\* components.py:49-50  the single-series panels draw data1
RenderMulti ==
    /\ ~ch_multi.drawn
    /\ ch_multi' = multi_sparkline(ch_data1, ch_width, ch_height, ch_fixed.min, ch_fixed.max)
    /\ UNCHANGED <<ch_data1, ch_data2, ch_width, ch_height, ch_fixed, ch_overlay,
                   liveVars, scanVars, bucketVars, moreVars>>

\* components.py:168-173  the rates panel draws RX (data1) over TX (data2)
RenderOverlay ==
    /\ ~ch_overlay.drawn
    /\ ch_overlay' = multi_sparkline_overlay(ch_data1, ch_data2, ch_width, ch_height,
                                             "green", "blue", ch_fixed.min, ch_fixed.max)
    /\ UNCHANGED <<ch_data1, ch_data2, ch_width, ch_height, ch_fixed, ch_multi,
                   liveVars, scanVars, bucketVars, moreVars>>

NextChart == RenderMulti \/ RenderOverlay
SpecChart == InitChart /\ [][NextChart]_vars

\* level L is what the claim's quantization gives value v on the scale
\* [lo, hi] with top + 1 levels
IsQuantized(L, v, lo, hi, top) ==
    LET c == IF v < lo THEN lo ELSE IF v > hi THEN hi ELSE v
    IN  /\ L \in 0..top
        /\ hi = lo => L = top \div 2
        /\ hi # lo =>
              /\ L * (hi - lo) <= (c - lo) * top
              /\ (c - lo) * top < (L + 1) * (hi - lo)
              /\ v <= lo => L = 0
              /\ v >= hi => L = top

\* C9: in both block charts every present value is clamped to [min, max]
\* and mapped linearly, truncating, to a level in 0..levels-1: min gives 0,
\* max gives levels-1, and an empty range gives (levels-1) div 2.
C9_Quantization ==
    /\ (ch_multi.drawn /\ ch_multi.levels) =>
          \A i \in 1..Len(ch_multi.data) :
              ~IsNaN(ch_multi.data[i]) =>
                  IsQuantized(ch_multi.normalized[i], ch_multi.data[i].v,
                              ch_multi.min_val, ch_multi.max_val, ch_height * 8 - 1)
    /\ (ch_overlay.drawn /\ ch_overlay.levels) =>
          \A i \in 1..Len(ch_overlay.data1) :
              /\ ~IsNaN(ch_overlay.data1[i]) =>
                    IsQuantized(ch_overlay.n1[i], ch_overlay.data1[i].v,
                                ch_overlay.min_val, ch_overlay.max_val, ch_height * 8 - 1)
              /\ ~IsNaN(ch_overlay.data2[i]) =>
                    IsQuantized(ch_overlay.n2[i], ch_overlay.data2[i].v,
                                ch_overlay.min_val, ch_overlay.max_val, ch_height * 8 - 1)

\* a chart with a value above the scale, clamped to the top level, and a
\* value whose exact quotient is not whole, so that truncation shows
C9_Witness ==
    /\ ch_multi.drawn /\ ch_multi.levels /\ ch_overlay.drawn /\ ch_overlay.levels
    /\ ch_multi.max_val > ch_multi.min_val
    /\ \E i \in 1..Len(ch_multi.data) :
          /\ ~IsNaN(ch_multi.data[i])
          /\ ch_multi.data[i].v > ch_multi.max_val
          /\ ch_multi.normalized[i] = ch_height * 8 - 1
    /\ \E i \in 1..Len(ch_multi.data) :
          /\ ~IsNaN(ch_multi.data[i])
          /\ ch_multi.data[i].v > ch_multi.min_val /\ ch_multi.data[i].v < ch_multi.max_val
          /\ ((ch_multi.data[i].v - ch_multi.min_val) * (ch_height * 8 - 1))
                % (ch_multi.max_val - ch_multi.min_val) # 0

\* the columns of the overlay where both series are present and the top
\* series (data1) is above the base series (data2)
TopAboveBase ==
    {i \in 1..Len(ch_overlay.n1) :
        ch_overlay.n1[i] >= 0 /\ ch_overlay.n2[i] >= 0 /\ ch_overlay.n1[i] > ch_overlay.n2[i]}

OverlayAt(row_idx, i) == ch_overlay.rows[row_idx][ch_overlay.pad_count + i]
RowMin(row_idx) == (ch_height - row_idx) * 8
RowMax(row_idx) == RowMin(row_idx) + 7

\* C10: in such a column a row whose whole band is at or below the base
\* level is drawn in the base colour, a row above those that the top level
\* reaches in the top colour, and a row above the top level is blank.
C10_TopOverBase ==
    (ch_overlay.drawn /\ ch_overlay.levels) =>
        \A i \in TopAboveBase : \A row_idx \in 1..ch_height :
            /\ RowMax(row_idx) <= ch_overlay.n2[i] =>
                  /\ OverlayAt(row_idx, i)[2] = "blue"
                  /\ OverlayAt(row_idx, i)[1] # " "
            /\ (RowMax(row_idx) > ch_overlay.n2[i] /\ RowMin(row_idx) <= ch_overlay.n1[i]) =>
                  /\ OverlayAt(row_idx, i)[2] = "green"
                  /\ OverlayAt(row_idx, i)[1] # " "
            /\ RowMin(row_idx) > ch_overlay.n1[i] => OverlayAt(row_idx, i) = BlankCell

\* a two-row overlay with a column whose bottom row is base-coloured under
\* a top-coloured row, a column where the base is inside the row the top
\* colours, and a column with a blank row above the top level
C10_Witness ==
    /\ ch_overlay.drawn /\ ch_overlay.levels /\ ch_height = 2
    /\ \E i \in TopAboveBase :
          /\ OverlayAt(2, i)[2] = "blue" /\ OverlayAt(1, i)[2] = "green"
    /\ \E i \in TopAboveBase :
          /\ ch_overlay.n2[i] >= RowMin(2) /\ ch_overlay.n2[i] < RowMax(2)
          /\ OverlayAt(2, i)[2] = "green" /\ OverlayAt(1, i) = BlankCell

\* the glyph of level n in the row whose band is row_min .. row_min + 7
GlyphOf(n, row_min) ==
    IF n >= row_min + 7 THEN FULL_BLOCK ELSE SPARK_CHARS[(n - row_min + 1) + 1]

OverlayColumns == 1..Len(ch_overlay.n1)

\* C11 as stated: in every column and row the base series' glyph and colour
\* are shown whenever the base level reaches the row's band, the top series'
\* only where the base level does not reach and the top level does, and a
\* cell neither reaches is blank (a missing value has level -1).
C11_BasePriority ==
    (ch_overlay.drawn /\ ch_overlay.levels) =>
        \A i \in OverlayColumns : \A row_idx \in 1..ch_height :
            LET n1 == ch_overlay.n1[i]
                n2 == ch_overlay.n2[i]
            IN  OverlayAt(row_idx, i) =
                    IF n2 >= RowMin(row_idx) THEN <<GlyphOf(n2, RowMin(row_idx)), "blue">>
                    ELSE IF n1 >= RowMin(row_idx)
                         THEN <<GlyphOf(n1, RowMin(row_idx)), "green">>
                    ELSE BlankCell

\* the base series wins row r: it fills the row's whole band, or it reaches
\* the band and the top level is not above it
BaseWins(n1, n2, row_idx) ==
    n2 >= RowMin(row_idx) /\ (n2 >= RowMax(row_idx) \/ n1 <= n2)

\* C11 (amended): the base series' glyph and colour are shown in a row whose
\* band the base level fills, or reaches while the top level is not above
\* the base level; otherwise the top series' glyph and colour are shown if
\* the top level reaches the row; otherwise the cell is blank.  A missing
\* value reaches no row.
C11_OverlayPriority ==
    (ch_overlay.drawn /\ ch_overlay.levels) =>
        \A i \in OverlayColumns : \A row_idx \in 1..ch_height :
            LET n1 == ch_overlay.n1[i]
                n2 == ch_overlay.n2[i]
            IN  /\ IsNaN(ch_overlay.data1[i]) <=> n1 = -1
                /\ IsNaN(ch_overlay.data2[i]) <=> n2 = -1
                /\ OverlayAt(row_idx, i) =
                      IF BaseWins(n1, n2, row_idx)
                      THEN <<GlyphOf(n2, RowMin(row_idx)), "blue">>
                      ELSE IF n1 >= RowMin(row_idx)
                           THEN <<GlyphOf(n1, RowMin(row_idx)), "green">>
                      ELSE BlankCell

\* one overlay with a row the base reaches but the higher top series takes,
\* a row the base keeps against a lower top series, and a column whose top
\* value is missing
C11_Witness ==
    /\ ch_overlay.drawn /\ ch_overlay.levels
    /\ \E i \in OverlayColumns : \E row_idx \in 1..ch_height :
          /\ ch_overlay.n2[i] >= RowMin(row_idx) /\ ch_overlay.n2[i] < RowMax(row_idx)
          /\ ch_overlay.n1[i] > ch_overlay.n2[i]
          /\ OverlayAt(row_idx, i)[2] = "green"
    /\ \E i \in OverlayColumns : \E row_idx \in 1..ch_height :
          \/ /\ ch_overlay.n1[i] >= RowMin(row_idx) /\ ch_overlay.n1[i] < ch_overlay.n2[i]
             /\ OverlayAt(row_idx, i)[2] = "blue"
          \/ /\ ch_overlay.n1[i] = -1 /\ ch_overlay.n2[i] >= RowMin(row_idx)
             /\ OverlayAt(row_idx, i)[2] = "blue"

MultiColumns == 1..Len(ch_multi.data)
MultiAt(row_idx, i) == ch_multi.rows[row_idx][ch_multi.pad_count + i]

\* the rows of column i whose band holds level n without being filled by it
PartialRows(n) == {row_idx \in 1..ch_height : RowMin(row_idx) <= n /\ n < RowMax(row_idx)}

\* C12: in the multi-row block chart a present bucket at level n leaves the
\* row with band [8r, 8r+7] blank when n is below the band, fills it with
\* the full block when n is at or above the band's top level, and puts the
\* alphabet's glyph for n - 8r there otherwise; so a column is full below
\* at most one partial cell and blank above it (top row = highest band).  A
\* missing bucket is blank in every row.
C12_MultiRow ==
    (ch_multi.drawn /\ ch_multi.levels) =>
        \A i \in MultiColumns :
            LET n == ch_multi.normalized[i] IN
            IF IsNaN(ch_multi.data[i])
            THEN \A row_idx \in 1..ch_height : MultiAt(row_idx, i) = BlankCell
            ELSE /\ \A row_idx \in 1..ch_height :
                       /\ n < RowMin(row_idx) => MultiAt(row_idx, i) = BlankCell
                       /\ n >= RowMax(row_idx) =>
                             /\ MultiAt(row_idx, i)[1] = FULL_BLOCK
                             /\ MultiAt(row_idx, i)[2] # "dim"
                       /\ row_idx \in PartialRows(n) =>
                             /\ MultiAt(row_idx, i)[1] = SPARK_CHARS[(n - RowMin(row_idx) + 1) + 1]
                             /\ MultiAt(row_idx, i)[1] # " "
                             /\ MultiAt(row_idx, i)[2] # "dim"
                 /\ Cardinality(PartialRows(n)) <= 1
                 /\ \A p \in PartialRows(n) : \A row_idx \in 1..ch_height :
                       /\ row_idx > p => MultiAt(row_idx, i)[1] = FULL_BLOCK
                       /\ row_idx < p => MultiAt(row_idx, i) = BlankCell

\* a two-row chart with a column that is full in the bottom row and partial
\* in the top row, next to a missing bucket, and one with a column at the
\* lowest level
C12_Witness ==
    /\ ch_multi.drawn /\ ch_multi.levels /\ ch_height = 2
    /\ Len(ch_multi.data) = 2
    /\ \E i \in MultiColumns :
          /\ ~IsNaN(ch_multi.data[i])
          /\ 1 \in PartialRows(ch_multi.normalized[i])
          /\ MultiAt(2, i)[1] = FULL_BLOCK /\ MultiAt(1, i)[1] # " "
    /\ \E i \in MultiColumns :
          IsNaN(ch_multi.data[i]) /\ MultiAt(1, i) = BlankCell /\ MultiAt(2, i) = BlankCell

(***************************************************************************)
(* charts.tall_sparkline: the dot-matrix (braille) line chart.  A line is  *)
(* a list of code points, chr(0x2800 + dots); the blank chart is made of   *)
(* spaces.  Dot k (0 = top) of a glyph column is bit left_bits[k] or       *)
(* right_bits[k] of `dots`.                                                *)
(***************************************************************************)
\* charts.py:474-475
left_bits == <<0, 1, 2, 6>>
right_bits == <<3, 4, 5, 7>>

\* charts.py:431,438,457  [" " * width] * height
BlankLines(width, height) ==
    [drawn |-> TRUE, levels |-> FALSE,
     lines |-> [line_idx \in 1..height |-> [c \in 1..width |-> 32]]]

\* charts.py:441-449  np.linspace(0, len - 1, target_points, dtype=int) picks
\* the samples when there are too many; fewer are padded from the left
Resample(data, target_points) ==
    IF Len(data) > target_points
    THEN [k \in 1..target_points |->
             data[((k - 1) * (Len(data) - 1)) \div (target_points - 1) + 1]]
    ELSE PadLeft(data, target_points)

RECURSIVE BitSum(_)
BitSum(bits) == IF bits = {} THEN 0
                ELSE LET b == CHOOSE x \in bits : TRUE IN 2 ^ b + BitSum(bits \ {b})

\* charts.py:494-506  the dot of one glyph column at the value's own level
ColumnDots(val, is_valid, base_row, bits) ==
    IF is_valid
    THEN {bits[dot_idx + 1] : dot_idx \in {k \in 0..3 : val - (base_row + k) = 0}}
    ELSE {}

\* charts.py:509-514  the connection, drawn in the right column
ConnectDots(left_val, right_val, left_valid, right_valid, base_row) ==
    IF left_valid /\ right_valid /\ left_val # right_val
    THEN {right_bits[dot_idx + 1] :
             dot_idx \in {k \in 0..3 : /\ Min(left_val, right_val) <= base_row + k
                                       /\ base_row + k <= Max(left_val, right_val)}}
    ELSE {}

\* charts.py:418-518
tall_sparkline(data, width, height) ==
    IF Len(data) = 0 \/ Len(Present(data)) = 0
    THEN BlankLines(width, height)
    ELSE
    LET d == Resample(data, width * 2)
        valid == [i \in 1..Len(d) |-> ~IsNaN(d[i])]
        valid_vals == Vals(Present(d))
    IN  IF Len(valid_vals) = 0
        THEN BlankLines(width, height)
        ELSE
        LET min_val == MinOf(valid_vals)
            max_val == MaxOf(valid_vals)
            max_dot_row == height * 4 - 1
            normalized == [i \in 1..Len(d) |->
                              Quantize(IF IsNaN(d[i]) THEN min_val ELSE d[i].v,
                                       min_val, max_val, max_dot_row)]
        IN  [drawn |-> TRUE, levels |-> TRUE, normalized |-> normalized, valid |-> valid,
             lines |-> [line_idx \in 1..height |->
                         [c \in 1..width |->
                           LET base_row == (height - line_idx) * 4
                               l == 2 * c - 1
                               r == 2 * c
                           IN  10240 + BitSum(
                                 ColumnDots(normalized[l], valid[l], base_row, left_bits)
                                 \cup ColumnDots(normalized[r], valid[r], base_row, right_bits)
                                 \cup ConnectDots(normalized[l], normalized[r],
                                                  valid[l], valid[r], base_row))]]]

DotValues == {NaN, Num(0), Num(1), Num(3), Num(7)}

\* the arguments: a series with missing samples, shorter or longer than the
\* 2 * width points the chart holds
InitDots ==
    /\ InitStore /\ InitScan /\ InitNoBucket /\ InitNoChart /\ InitNoParse /\ InitLater
    /\ t_data \in SeqsUpTo(DotValues, MaxPoints)
    /\ t_width \in {1, 2}
    /\ t_height \in {1, 2}
    /\ t_lines = NoChart

RenderTall ==
    /\ ~t_lines.drawn
    /\ t_lines' = tall_sparkline(t_data, t_width, t_height)
    /\ UNCHANGED <<t_data, t_width, t_height, liveVars, scanVars, bucketVars, chartVars,
                   parseVars, laterVars>>

NextDots == RenderTall
SpecDots == InitDots /\ [][NextDots]_vars

\* dot k (0 = top) of a glyph column is lit in the glyph of line line_idx, cell c
Lit(line_idx, c, bit) == ((t_lines.lines[line_idx][c] - 10240) \div (2 ^ bit)) % 2 = 1

\* C13: each glyph cell holds two adjacent columns; a present column lights
\* only the dot at its own level; when both columns of a cell are present
\* and differ, the connecting (right) column also lights exactly the dots
\* strictly between the two levels; a missing column lights nothing and
\* causes no connection.
C13_DotMatrix ==
    (t_lines.drawn /\ t_lines.levels) =>
        \A line_idx \in 1..t_height : \A c \in 1..t_width : \A k \in 0..3 :
            LET dot_row == (t_height - line_idx) * 4 + k
                lv == t_lines.valid[2 * c - 1]
                rv == t_lines.valid[2 * c]
                l == t_lines.normalized[2 * c - 1]
                r == t_lines.normalized[2 * c]
            IN  /\ Lit(line_idx, c, left_bits[k + 1]) <=> (lv /\ l = dot_row)
                /\ Lit(line_idx, c, right_bits[k + 1]) <=>
                      \/ rv /\ r = dot_row
                      \/ lv /\ rv /\ Min(l, r) < dot_row /\ dot_row < Max(l, r)

(***************************************************************************)
(* core/scanner.py: channel tables, freq_to_channel and the single pass of *)
(* scan_channels over the lines of `iw dev <iface> scan dump`.  A dump is  *)
(* what iw prints for a list of BSS records: a "BSS ..." line, then the    *)
(* record's "freq:", "DS Parameter set: channel" and "SSID:" lines when it *)
(* has them, then a line the parser ignores.  A network name list is kept  *)
(* as the list the parser appends to and, after list(set(...)), as a set.  *)
(***************************************************************************)
\* scanner.py:11-16
CHANNELS_2_4GHZ == 1..14
CHANNELS_5GHZ == {36, 40, 44, 48, 52, 56, 60, 64,
                  100, 104, 108, 112, 116, 120, 124, 128, 132, 136, 140, 144,
                  149, 153, 157, 161, 165}

\* scanner.py:19-26
FREQ_TO_CHANNEL_5GHZ ==
    {<<5180, 36>>, <<5200, 40>>, <<5220, 44>>, <<5240, 48>>,
     <<5260, 52>>, <<5280, 56>>, <<5300, 60>>, <<5320, 64>>,
     <<5500, 100>>, <<5520, 104>>, <<5540, 108>>, <<5560, 112>>,
     <<5580, 116>>, <<5600, 120>>, <<5620, 124>>, <<5640, 128>>,
     <<5660, 132>>, <<5680, 136>>, <<5700, 140>>, <<5720, 144>>,
     <<5745, 149>>, <<5765, 153>>, <<5785, 157>>, <<5805, 161>>, <<5825, 165>>}

\* scanner.py:29-32
FREQ_TO_CHANNEL_2_4GHZ ==
    {<<2412, 1>>, <<2417, 2>>, <<2422, 3>>, <<2427, 4>>, <<2432, 5>>, <<2437, 6>>,
     <<2442, 7>>, <<2447, 8>>, <<2452, 9>>, <<2457, 10>>, <<2462, 11>>, <<2467, 12>>,
     <<2472, 13>>, <<2484, 14>>}

\* freq in table / table[freq]
Keys(table) == {e[1] : e \in table}
Lookup(table, key) == (CHOOSE e \in table : e[1] = key)[2]

\* scanner.py:35-42  (a frequency or channel is Num(n), a name Str(s))
freq_to_channel(freq_mhz) ==
    IF freq_mhz.v \in Keys(FREQ_TO_CHANNEL_5GHZ)
    THEN Num(Lookup(FREQ_TO_CHANNEL_5GHZ, freq_mhz.v))
    ELSE IF freq_mhz.v \in Keys(FREQ_TO_CHANNEL_2_4GHZ)
    THEN Num(Lookup(FREQ_TO_CHANNEL_2_4GHZ, freq_mhz.v))
    ELSE None

Str(s) == [k |-> "str", v |-> s]

\* scanner.py:45-49
get_channels_for_band(band) == IF band = "5" THEN CHANNELS_5GHZ ELSE CHANNELS_2_4GHZ

\* the lines iw prints for one BSS record
LinesOf(rec) ==
    <<[t |-> "BSS", v |-> None]>>
    \o (IF rec.freq # None THEN <<[t |-> "freq", v |-> rec.freq]>> ELSE <<>>)
    \o (IF rec.ssid # None THEN <<[t |-> "SSID", v |-> rec.ssid]>> ELSE <<>>)
    \o (IF rec.channel # None THEN <<[t |-> "DS", v |-> rec.channel]>> ELSE <<>>)
    \o <<[t |-> "signal", v |-> None]>>

RECURSIVE DumpOf(_)
DumpOf(records) ==
    IF records = <<>> THEN <<>> ELSE LinesOf(Head(records)) \o DumpOf(Tail(records))

\* BSS records: with or without a DS channel, a frequency of either table
\* or of none, a name or none (hidden network)
BssRecords == [channel : {None, Num(1)},
               freq : {None, Num(2437), Num(5500), Num(9999)},
               ssid : {None, Str("a"), Str("b")}]

InitParse ==
    /\ InitStore /\ InitScan /\ InitNoBucket /\ InitNoChart /\ InitNoDots /\ InitLater
    /\ p_records \in SeqsUpTo(BssRecords, MaxRecords)
    /\ p_lines = DumpOf(p_records)
    /\ p_band \in {"2.4", "5"}
    /\ p_i = 1 /\ p_cur = NoEntry
    \* scanner.py:116
    /\ p_channels = [ch \in get_channels_for_band(p_band) |-> [count |-> 0, networks |-> <<>>]]
    /\ p_pc = "lines" /\ p_snapshot = None
    /\ p_rec = 0 /\ p_flushed = <<>>

\* a parser that trusts the frequency over the explicit channel
FinalChannelByFreq(cur) ==
    IF cur.freq # None THEN freq_to_channel(cur.freq) ELSE cur.channel

\* scanner.py:130-132, 166-168  the channel of the entry read so far
FinalChannel(cur) ==
    IF cur.channel = None /\ cur.freq # None THEN freq_to_channel(cur.freq) ELSE cur.channel

\* a parser that does not count an entry without a name
FlushedSkippingHidden(channels, cur) ==
    LET final_channel == FinalChannel(cur)
    IN  IF final_channel # None /\ final_channel.v \in DOMAIN channels /\ cur.ssid # None
        THEN [channels EXCEPT ![final_channel.v] =
                 [count |-> @.count + 1, networks |-> Append(@.networks, cur.ssid)]]
        ELSE channels

\* scanner.py:134-137, 170-173  count the entry and keep its name
Flushed(channels, cur) ==
    LET final_channel == FinalChannel(cur)
    IN  IF final_channel # None /\ final_channel.v \in DOMAIN channels
        THEN [channels EXCEPT ![final_channel.v] =
                 [count |-> @.count + 1,
                  networks |-> IF cur.ssid # None THEN Append(@.networks, cur.ssid)
                               ELSE @.networks]]
        ELSE channels

\* scanner.py:124-163  one line of the dump
ParseLine ==
    /\ p_pc = "lines" /\ p_i <= Len(p_lines)
    /\ LET line == p_lines[p_i] IN
         IF line.t = "BSS"
         THEN /\ p_channels' = Flushed(p_channels, p_cur)
              /\ p_cur' = NoEntry
              /\ p_flushed' = IF p_rec >= 1 THEN Append(p_flushed, p_rec) ELSE p_flushed
              /\ p_rec' = p_rec + 1
         ELSE /\ p_cur' = IF line.t = "freq" THEN [p_cur EXCEPT !.freq = line.v]
                          ELSE IF line.t = "DS" THEN [p_cur EXCEPT !.channel = line.v]
                          ELSE IF line.t = "SSID" THEN [p_cur EXCEPT !.ssid = line.v]
                          ELSE p_cur
              /\ UNCHANGED <<p_channels, p_flushed, p_rec>>
    /\ p_i' = p_i + 1
    /\ UNCHANGED <<p_records, p_lines, p_band, p_pc, p_snapshot,
                   liveVars, scanVars, bucketVars, chartVars, dotVars, laterVars>>

\* scanner.py:165-173  the last entry
LastEntry ==
    /\ p_pc = "lines" /\ p_i > Len(p_lines)
    /\ p_channels' = Flushed(p_channels, p_cur)
    /\ p_flushed' = IF p_rec >= 1 THEN Append(p_flushed, p_rec) ELSE p_flushed
    /\ p_pc' = "dedupe"
    /\ UNCHANGED <<p_records, p_lines, p_band, p_i, p_cur, p_snapshot, p_rec,
                   liveVars, scanVars, bucketVars, chartVars, dotVars, laterVars>>

\* the elements of a list
Range(s) == {s[j] : j \in 1..Len(s)}

\* scanner.py:175-184  list(set(networks)); count = len(networks) or count
Deduplicate ==
    /\ p_pc = "dedupe"
    /\ p_snapshot' =
          [band |-> p_band,
           channels |-> [ch \in DOMAIN p_channels |->
               LET networks == Range(p_channels[ch].networks)
               IN  [networks |-> networks,
                    count |-> IF Cardinality(networks) # 0 THEN Cardinality(networks)
                              ELSE p_channels[ch].count]]]
    /\ p_pc' = "done"
    /\ UNCHANGED <<p_records, p_lines, p_band, p_i, p_cur, p_channels, p_rec, p_flushed,
                   liveVars, scanVars, bucketVars, chartVars, dotVars, laterVars>>

NextParse == ParseLine \/ LastEntry \/ Deduplicate
SpecParse == InitParse /\ [][NextParse]_vars

\* the channel a BSS record resolves to: its explicit channel, otherwise
\* the channel its frequency stands for in one of the two tables (0: none)
Resolved(rec) ==
    IF rec.channel # None THEN rec.channel.v
    ELSE IF rec.freq # None /\ \E e \in FREQ_TO_CHANNEL_2_4GHZ \cup FREQ_TO_CHANNEL_5GHZ :
                                  e[1] = rec.freq.v
         THEN (CHOOSE e \in FREQ_TO_CHANNEL_2_4GHZ \cup FREQ_TO_CHANNEL_5GHZ :
                  e[1] = rec.freq.v)[2]
         ELSE 0

\* the records of the dump that resolve to channel ch
RecordsOn(ch) == {j \in 1..Len(p_records) : Resolved(p_records[j]) = ch}
NamesOn(ch) == {p_records[j].ssid : j \in {x \in RecordsOn(ch) : p_records[x].ssid # None}}

\* C14: a record's channel is its explicit channel when it has one, else
\* the lookup of its frequency (2437 MHz is channel 6, 5500 MHz channel
\* 100); no frequency is in both tables; a record without explicit channel
\* whose frequency is in no table resolves to no channel and adds to no
\* channel's count or names.
C14_ChannelResolution ==
    /\ Keys(FREQ_TO_CHANNEL_2_4GHZ) \cap Keys(FREQ_TO_CHANNEL_5GHZ) = {}
    /\ freq_to_channel(Num(2437)) = Num(6) /\ freq_to_channel(Num(5500)) = Num(100)
    /\ freq_to_channel(Num(9999)) = None
    /\ p_pc = "done" =>
          \A ch \in DOMAIN p_snapshot.channels :
              /\ p_snapshot.channels[ch].networks = NamesOn(ch)
              /\ RecordsOn(ch) = {} => p_snapshot.channels[ch].count = 0
              /\ RecordsOn(ch) # {} => p_snapshot.channels[ch].count > 0

\* a 5 GHz scan that counted a record by its frequency (5500 MHz) while a
\* 9999 MHz record was left out, or a 2.4 GHz scan where an explicit
\* channel 1 overrode the frequency of channel 6
C14_Witness ==
    /\ p_pc = "done" /\ Len(p_records) = 2
    /\ \/ /\ p_band = "5"
          /\ p_snapshot.channels[100].count = 1
          /\ \E j \in 1..2 : p_records[j].channel = None /\ p_records[j].freq = Num(9999)
       \/ /\ p_band = "2.4"
          /\ \E j \in 1..2 : p_records[j].channel = Num(1) /\ p_records[j].freq = Num(2437)
          /\ p_snapshot.channels[1].count > 0 /\ p_snapshot.channels[6].count = 1

\* C15: the pass flushes every BSS record exactly once, the last one at the
\* end of input; per channel the snapshot lists each distinct name once and
\* the count is the number of distinct names, or the number of records on
\* the channel when none of them had a name.
C15_SinglePass ==
    /\ p_pc \in {"dedupe", "done"} => p_flushed = [j \in 1..Len(p_records) |-> j]
    /\ p_pc = "lines" => p_flushed = [j \in 1..(IF p_rec = 0 THEN 0 ELSE p_rec - 1) |-> j]
    /\ p_pc = "done" =>
          \A ch \in DOMAIN p_snapshot.channels :
              /\ p_snapshot.channels[ch].networks = NamesOn(ch)
              /\ p_snapshot.channels[ch].count =
                    IF NamesOn(ch) # {} THEN Cardinality(NamesOn(ch))
                    ELSE Cardinality(RecordsOn(ch))

\* two records flushed to one channel with the same name: listed once,
\* counted once
C15_Witness ==
    /\ p_pc = "done" /\ Len(p_flushed) = 2
    /\ \E ch \in DOMAIN p_snapshot.channels :
          /\ Cardinality(RecordsOn(ch)) = 2
          /\ Cardinality(NamesOn(ch)) = 1 /\ p_snapshot.channels[ch].count = 1
          /\ \A j \in RecordsOn(ch) : p_records[j].ssid # None
    /\ \E ch \in DOMAIN p_snapshot.channels : RecordsOn(ch) = {}

(***************************************************************************)
(* core/storage.py get_heatmap_data: one row per date, oldest first.  A    *)
(* day's file is what load_day_scans returns ([] when missing or corrupt). *)
(* A stored snapshot is a JSON object: the keys of "channels" are the      *)
(* decimal strings json.dump made of the channel numbers.                  *)
(***************************************************************************)
MaxDays == 2
MaxDayScans == 2

HeatCounts == {0, 4, 6}
BandTags == {None, Str("2.4"), Str("5")}

\* the channels a stored snapshot carries, as JSON keys
StoredKeys(tag) == IF tag = Str("5") THEN {"36", "40"} ELSE {"1", "6"}

DayScans ==
    UNION {[band : {tag}, channels : [StoredKeys(tag) -> [count : HeatCounts]]] :
             tag \in BandTags}

DayFiles == SeqsUpTo(DayScans, MaxDayScans)

NaNRow(channels) == [ch \in channels |-> NaN]

RECURSIVE TotalOf(_, _)
TotalOf(channels_data, keys) ==
    IF keys = {} THEN 0
    ELSE LET k == CHOOSE x \in keys : TRUE
         IN  channels_data[k].count + TotalOf(channels_data, keys \ {k})

\* storage.py:114-121  _scan_total_networks
scan_total_networks(scan) == TotalOf(scan.channels, DOMAIN scan.channels)

\* max(band_scans, key=...) keeping the last of the maximal items
RECURSIVE MaxFromLast(_, _, _)
MaxFromLast(band_scans, i, best) ==
    IF i > Len(band_scans) THEN best
    ELSE MaxFromLast(band_scans, i + 1,
                     IF scan_total_networks(band_scans[i]) >= scan_total_networks(best)
                     THEN band_scans[i] ELSE best)

BestScanLast(band_scans) == MaxFromLast(band_scans, 2, band_scans[1])

\* Python's max(iterable, key=f): an item replaces the best so far only when
\* its key is strictly greater, so the first of the maximal items is kept
RECURSIVE MaxFrom(_, _, _)
MaxFrom(band_scans, i, best) ==
    IF i > Len(band_scans) THEN best
    ELSE MaxFrom(band_scans, i + 1,
                 IF scan_total_networks(band_scans[i]) > scan_total_networks(best)
                 THEN band_scans[i] ELSE best)

\* storage.py:174  best_scan = max(band_scans, key=_scan_total_networks)
BestScan(band_scans) == MaxFrom(band_scans, 2, band_scans[1])

\* storage.py:164-168  the band filter with its fallback to untagged scans
BandScans(scans, band) ==
    LET tagged == SelectSeq(scans, LAMBDA s : s.band = Str(band))
    IN  IF Len(tagged) = 0 /\ band = "2.4"
        THEN SelectSeq(scans, LAMBDA s : s.band = None)
        ELSE tagged

\* storage.py:157-180  the body of the loop over dates
HeatRowOf(scans, band) ==
    LET channels == get_channels_for_band(band)
        band_scans == BandScans(scans, band)
    IN  IF Len(scans) = 0 \/ Len(band_scans) = 0 THEN NaNRow(channels)
        ELSE LET channels_data == BestScan(band_scans).channels
             IN  [ch \in channels |->
                    \* channels_data.get(str(ch)) or channels_data.get(ch): a
                    \* loaded JSON object has no integer key
                    IF ToString(ch) \in DOMAIN channels_data
                    THEN Num(channels_data[ToString(ch)].count)
                    ELSE Num(0)]

InitHeat ==
    /\ InitStore /\ InitScan /\ InitNoBucket /\ InitNoChart /\ InitNoDots /\ InitNoParse
    /\ InitNoFile /\ InitLast
    /\ h_band = "2.4" /\ h_days = 0 /\ h_pc = "ready" /\ h_row = 0
    /\ h_scans = <<>> /\ h_data = <<>>

\* storage.py:142-155  resolve the band, build the dates, allocate the rows
HeatBegin ==
    /\ h_pc = "ready"
    /\ \E band \in BandTags, detected \in BandTags, days \in 1..MaxDays :
         /\ h_band' = (IF band # None THEN band
                       ELSE IF detected # None THEN detected ELSE Str("2.4")).v
         /\ h_days' = days
    /\ h_pc' = "rows"
    /\ UNCHANGED <<h_row, h_scans, h_data, liveVars, scanVars, bucketVars, chartVars,
                   dotVars, parseVars, fileVars, lastVars>>

\* storage.py:157-180  one date: load its file and fill its row
HeatRow ==
    /\ h_pc = "rows" /\ h_row < h_days
    /\ \E scans \in DayFiles :
         /\ h_scans' = scans
         /\ h_data' = Append(h_data, HeatRowOf(scans, h_band))
    /\ h_row' = h_row + 1
    /\ UNCHANGED <<h_band, h_days, h_pc, liveVars, scanVars, bucketVars, chartVars,
                   dotVars, parseVars, fileVars, lastVars>>

\* storage.py:182
HeatReturn ==
    /\ h_pc = "rows" /\ h_row = h_days
    /\ h_pc' = "done"
    /\ UNCHANGED <<h_band, h_days, h_row, h_scans, h_data, liveVars, scanVars, bucketVars,
                   chartVars, dotVars, parseVars, fileVars, lastVars>>

NextHeat == HeatBegin \/ HeatRow \/ HeatReturn

SpecHeat == InitHeat /\ [][NextHeat]_vars

\* the occupancy row a stored snapshot gives for the requested band
RowFrom(scan) ==
    [ch \in get_channels_for_band(h_band) |->
        IF \E k \in DOMAIN scan.channels : k = ToString(ch)
        THEN Num(scan.channels[ToString(ch)].count) ELSE Num(0)]

Occupancy(i) == scan_total_networks(h_scans[i])

\* the snapshot of highest total occupancy among those at the positions M,
\* the earliest in stored order among equals
Representative(M) ==
    CHOOSE i \in M : \A j \in M : /\ Occupancy(j) <= Occupancy(i)
                                  /\ (Occupancy(j) = Occupancy(i) => i <= j)

TaggedAs(band) == {i \in 1..Len(h_scans) : h_scans[i].band = Str(band)}
Untagged == {i \in 1..Len(h_scans) : h_scans[i].band = None}

\* the snapshots the day's row is chosen from: those tagged with the
\* requested band, or on a day with none of them and band 2.4 the untagged
Matching == IF TaggedAs(h_band) = {} /\ h_band = "2.4" THEN Untagged ELSE TaggedAs(h_band)

\* C16: the row of a day is the occupancy of the snapshot of maximal total
\* occupancy among the day's snapshots that match the requested band, the
\* first in stored order when several tie on the total.
C16_Representative ==
    (h_row >= 1 /\ Matching # {})
        => h_data[h_row] = RowFrom(h_scans[Representative(Matching)])

\* a day with a total-4 snapshot stored before a total-10 one of the
\* requested band: the row is the total-10 snapshot's
C16_Witness ==
    /\ h_row >= 1 /\ Len(h_scans) = 2
    /\ Matching = {1, 2}
    /\ Occupancy(1) = 4 /\ Occupancy(2) = 10
    /\ h_data[h_row] = RowFrom(h_scans[2])
    /\ h_data[h_row] # RowFrom(h_scans[1])

\* the snapshots of the day that count as data of the band when an untagged
\* snapshot is 2.4GHz data
MatchingLegacy == IF h_band = "2.4" THEN TaggedAs("2.4") \cup Untagged ELSE TaggedAs(h_band)

\* C17: an untagged snapshot is 2.4GHz data: built for band 2.4 the row is
\* chosen among the tagged-2.4 and the untagged snapshots together, built
\* for band 5 an untagged snapshot is never chosen.
C17_Legacy ==
    h_row >= 1 =>
        IF MatchingLegacy = {} THEN h_data[h_row] = NaNRow(get_channels_for_band(h_band))
        ELSE h_data[h_row] = RowFrom(h_scans[Representative(MatchingLegacy)])

(***************************************************************************)
(* The scan handlers App.background_scan and HeatmapView.trigger_scan with *)
(* storage.save_scan and storage.load_day_scans as calls, over the day     *)
(* file as the file system may hold it.  A snapshot is represented by the  *)
(* number of the call that produced it (0: one stored before).             *)
(***************************************************************************)
MaxCalls == 2

ListOf(items) == [k |-> "list", v |-> items]
JsonObject == [k |-> "object", v |-> <<>>]
Bool(b) == [k |-> "bool", v |-> b]

\* absent: no file; unreadable: open(.., "r") raises PermissionError;
\* malformed: text that is not JSON; undecodable: bytes that are not UTF-8;
\* object: valid JSON that is not a list; list: what save_scan writes
DayFileStates ==
    {[kind |-> k, items |-> <<>>] :
        k \in {"absent", "unreadable", "malformed", "undecodable", "object"}}
    \cup {[kind |-> "list", items |-> q] : q \in {<<>>, <<Num(0)>>}}

\* with open(filepath, "r") as f: json.load(f)
ReadJson(file) ==
    CASE file.kind = "unreadable"  -> [exc |-> "IOError", value |-> None]
      [] file.kind = "malformed"   -> [exc |-> "JSONDecodeError", value |-> None]
      [] file.kind = "undecodable" -> [exc |-> "UnicodeDecodeError", value |-> None]
      [] file.kind = "object"      -> [exc |-> "none", value |-> JsonObject]
      [] file.kind = "list"        -> [exc |-> "none", value |-> ListOf(file.items)]

\* except (json.JSONDecodeError, IOError)
Caught(exc) == exc \in {"JSONDecodeError", "IOError"}

\* storage.py:57-76
load_day_scans(file) ==
    IF file.kind = "absent" THEN [raised |-> "none", value |-> ListOf(<<>>)]
    ELSE LET r == ReadJson(file)
         IN  IF r.exc = "none" THEN [raised |-> "none", value |-> r.value]
             ELSE IF Caught(r.exc) THEN [raised |-> "none", value |-> ListOf(<<>>)]
             ELSE [raised |-> r.exc, value |-> None]

\* storage.py:25-54
save_scan(scan_data, file, writable, mkdir_ok) ==
    IF scan_data = None THEN [raised |-> "none", value |-> Bool(FALSE), file |-> file]
    ELSE IF ~mkdir_ok THEN [raised |-> "OSError", value |-> None, file |-> file]
    ELSE LET r == IF file.kind = "absent" THEN [exc |-> "none", value |-> ListOf(<<>>)]
                  ELSE ReadJson(file)
             scans == IF r.exc = "none" THEN r.value ELSE ListOf(<<>>)
         IN  IF r.exc # "none" /\ ~Caught(r.exc)
             THEN [raised |-> r.exc, value |-> None, file |-> file]
             ELSE IF scans.k # "list"
             THEN [raised |-> "AttributeError", value |-> None, file |-> file]
             ELSE IF writable
             THEN [raised |-> "none", value |-> Bool(TRUE),
                   file |-> [kind |-> "list", items |-> Append(scans.v, scan_data)]]
             ELSE [raised |-> "none", value |-> Bool(FALSE), file |-> file]

Interfaces == {"", "wlan0"}
DumpOutcomes == {"text", "CalledProcessError", "TimeoutExpired", "FileNotFoundError"}

\* scan_channels without the test of the interface
scan_channelsAnyInterface(interface, dump, n) ==
    IF dump # "text" THEN None ELSE Num(n)

\* scanner.py:90-113  no interface, or any exception of the dump command,
\* gives None; the outcome of refresh_scan_cache is not looked at
scan_channels(interface, dump, n) ==
    IF interface = "" THEN None
    ELSE IF dump # "text" THEN None
    ELSE Num(n)

Grid(items) == [k |-> "grid", v |-> items]

InitFile ==
    /\ InitStore /\ InitScan /\ InitNoBucket /\ InitNoChart /\ InitNoDots /\ InitNoParse
    /\ InitNoHeat /\ InitLast
    /\ f_file \in DayFileStates
    /\ f_writable \in BOOLEAN /\ f_mkdir \in BOOLEAN
    \* a directory that cannot be made does not exist
    /\ ~f_mkdir => (f_file.kind = "absent" /\ ~f_writable)
    /\ f_n = 0 /\ f_prev = None /\ f_result = None
    /\ hv_data = None /\ hv_scanning = FALSE

Called(op, interface, dump, scan, raised, value) ==
    /\ f_n' = f_n + 1
    /\ f_prev' = [file |-> f_file, grid |-> hv_data]
    /\ f_result' = [op |-> op, interface |-> interface, dump |-> dump, scan |-> scan,
                    raised |-> raised, value |-> value]
    /\ UNCHANGED <<f_writable, f_mkdir, liveVars, scanVars, bucketVars, chartVars, dotVars,
                   parseVars, heatVars, lastVars>>

\* app.py:57-68
background_scan ==
    /\ f_n < MaxCalls
    /\ \E interface \in Interfaces, dump \in DumpOutcomes :
         LET scan_result == scan_channels(interface, dump, f_n + 1)
             r == save_scan(scan_result, f_file, f_writable, f_mkdir)
         IN  /\ IF scan_result # None
                THEN /\ f_file' = r.file
                     /\ hv_data' = IF r.raised = "none" THEN None ELSE hv_data
                ELSE UNCHANGED <<f_file, hv_data>>
             \* except Exception: pass
             /\ Called("background_scan", interface, dump, scan_result, "none", None)
    /\ UNCHANGED hv_scanning

\* heatmap_view.py:30-46  trigger_scan and the load_data it calls
trigger_scan ==
    /\ f_n < MaxCalls
    /\ \E interface \in Interfaces, dump \in DumpOutcomes :
         LET scan_result == scan_channels(interface, dump, f_n + 1)
             r == save_scan(scan_result, f_file, f_writable, f_mkdir)
             l == load_day_scans(r.file)
             raised == IF scan_result = None THEN "none"
                       ELSE IF r.raised # "none" THEN r.raised
                       ELSE IF l.raised # "none" THEN l.raised
                       ELSE IF l.value.k # "list" THEN "TypeError"
                       ELSE "none"
         IN  /\ f_file' = IF scan_result # None THEN r.file ELSE f_file
             /\ hv_data' = IF scan_result # None /\ raised = "none"
                           THEN Grid(l.value.v) ELSE hv_data
             /\ hv_scanning' = (raised # "none")
             /\ Called("trigger_scan", interface, dump, scan_result, raised, None)

\* storage.py:57-76  a call of load_day_scans for today
LoadDay ==
    /\ f_n < MaxCalls
    /\ LET l == load_day_scans(f_file)
       IN  Called("load_day_scans", "wlan0", "text", None, l.raised, l.value)
    /\ UNCHANGED <<f_file, hv_data, hv_scanning>>

\* storage.py:25-54  a call of save_scan
SaveScan ==
    /\ f_n < MaxCalls
    /\ \E scan_data \in {None, Num(f_n + 1)} :
         LET r == save_scan(scan_data, f_file, f_writable, f_mkdir)
         IN  /\ f_file' = r.file
             /\ Called("save_scan", "wlan0", "text", scan_data, r.raised, r.value)
    /\ UNCHANGED <<hv_data, hv_scanning>>

NextFile == background_scan \/ trigger_scan \/ LoadDay \/ SaveScan

SpecFile == InitFile /\ [][NextFile]_vars

ScanCalled == f_result # None /\ f_result.op \in {"background_scan", "trigger_scan"}

\* the scan's backend failed: no interface, or the dump command raised
BackendFailed == f_result.interface = "" \/ f_result.dump # "text"

StoreCalled == f_result # None /\ f_result.op \in {"load_day_scans", "save_scan"}

\* C19: load_day_scans and save_scan never raise, whatever the day file
\* holds: a load of a missing, unreadable or corrupt file returns an empty
\* list, and a save returns True or False.
C19_StorageFailures ==
    StoreCalled =>
        /\ f_result.raised = "none"
        /\ (f_result.op = "load_day_scans" /\ f_prev.file.kind # "list")
              => f_result.value = ListOf(<<>>)
        /\ f_result.op = "save_scan" => f_result.value.k = "bool"

(***************************************************************************)
(* LiveView.collect_data as one step, over every result get_link_info can  *)
(* return: the command raised, or each of the three searches matched or    *)
(* not.  Ticks are sequential (one collector) and no host is configured.   *)
(***************************************************************************)
AllLinkOutcomes ==
    {get_link_info(raises, signal_match, rx_match, tx_match) :
        raises \in BOOLEAN, signal_match \in BOOLEAN, rx_match \in BOOLEAN,
        tx_match \in BOOLEAN}

\* live_view.py:33-91
collect_data ==
    /\ ~paused /\ ping_hosts = <<>>
    /\ Len(log) < MaxTicks
    /\ \E info \in AllLinkOutcomes :
         LET cur == [time |-> clock + RefreshInterval, signal |-> info.signal,
                     rx_rate |-> info.rx_rate, tx_rate |-> info.tx_rate,
                     bandwidth |-> info.bandwidth]
             trim == TrimCount(Len(time_data) + 1)
         IN  /\ clock' = clock + RefreshInterval
             /\ c_cur' = cur
             /\ last' = [cur EXCEPT !.time = 0]
             /\ log' = Append(log, cur)
             /\ time_data' = Trimmed(Append(time_data, cur.time), trim)
             /\ signal_data' = Trimmed(AppendMetric(signal_data, cur.signal), trim)
             /\ rx_rate_data' = Trimmed(AppendMetric(rx_rate_data, cur.rx_rate), trim)
             /\ tx_rate_data' = Trimmed(AppendMetric(tx_rate_data, cur.tx_rate), trim)
             /\ bandwidth_data' = Trimmed(AppendMetric(bandwidth_data, cur.bandwidth), trim)
             /\ signal_failed' = Trimmed(AppendFailed(signal_failed, cur.signal), trim)
             /\ rates_failed' = Trimmed(AppendFailed(rates_failed, cur.rx_rate), trim)
             /\ bandwidth_failed' =
                   Trimmed(AppendFailed(bandwidth_failed, cur.bandwidth), trim)
    /\ ticks' = ticks + 1
    /\ UNCHANGED <<hostVars, c_pc, c_i, c_host, c_trim, started, mainVars, readVars,
                   paused, paused_at, current_window, nprobes, histVars, otherVars>>

NextTick == collect_data

SpecTick == Init /\ [][NextTick]_vars

\* the ticks whose entries the arrays retain
Retained == LastN(log, MAX_DATA_POINTS)

FlagsTrack(flags, f) ==
    /\ Len(flags) = Len(Retained)
    /\ \A i \in 1..Len(Retained) : flags[i] <=> (Retained[i][f] = None)

\* C20: at every retained tick the failure flag of each of signal, rx rate,
\* tx rate and bandwidth is true exactly when that metric's value is missing
\* at that tick, whatever the other metrics are; the flag kept for the rates
\* is the flag of the rx rate and of the tx rate.
C20_PartialMetrics ==
    /\ FlagsTrack(signal_failed, "signal")
    /\ FlagsTrack(rates_failed, "rx_rate")
    /\ FlagsTrack(rates_failed, "tx_rate")
    /\ FlagsTrack(bandwidth_failed, "bandwidth")

(***************************************************************************)
(* core/ping.py at statement level: one ping_worker per host_info, the     *)
(* collector's loop over config.ping_hosts (live_view.py:68-74), and the   *)
(* main thread, which removes hosts, renders and at the end calls          *)
(* stop_all_ping_threads.  The threads are the workers 1..MaxHosts and the *)
(* collector, MaxHosts + 1; the prompts and the charts are left out.       *)
(***************************************************************************)
MaxPingTicks == 1

CollectorThread == MaxHosts + 1

NoCount == [fp |-> 0, fs |-> 0, rp |-> 0, ra |-> 0,
            removed |-> FALSE, passed |-> FALSE, fetched |-> FALSE]

\* a counter of the history, kept up to 2
Inc(n) == IF n < 2 THEN n + 1 ELSE 2

\* the state after setup_ping_hosts: every host listed, its worker started
InitPing ==
    /\ InitStore /\ InitScan /\ InitNoBucket /\ InitNoChart /\ InitNoDots /\ InitNoParse
    /\ InitNoHeat /\ InitNoFile /\ InitNoLoop
    /\ ping_threads_running = TRUE /\ ping_lock = 0
    /\ w_pc = [h \in HostIds |-> "top"]
    /\ k_hosts = [j \in HostIds |-> j]
    /\ k_enabled = [h \in HostIds |-> TRUE]
    /\ k_latest = [h \in HostIds |-> None]
    /\ k_c = [pc |-> "idle", i |-> 0, host |-> 0]
    /\ k_m = [pc |-> "loop", idx |-> 0, removes |-> 0]
    /\ k_ticks = 0
    /\ k_cnt = [h \in HostIds |-> NoCount]
    /\ k_unlocked = None

PingFrame == UNCHANGED <<liveVars, scanVars, bucketVars, chartVars, dotVars, parseVars,
                         heatVars, fileVars, loopVars>>

WorkerGoes(h, next) ==
    /\ w_pc' = [w_pc EXCEPT ![h] = next]
    /\ UNCHANGED <<ping_threads_running, k_hosts, k_enabled, k_c, k_m, k_ticks, k_unlocked>>
    /\ PingFrame

\* ping.py:22  while ping_threads_running
LoopTest(h) ==
    /\ w_pc[h] = "top"
    /\ WorkerGoes(h, IF ping_threads_running THEN "check" ELSE "done")
    /\ UNCHANGED <<ping_lock, k_latest, k_cnt>>

\* ping.py:23  if not host_info.get("enabled", True)
EnabledTest(h) ==
    /\ w_pc[h] = "check"
    /\ WorkerGoes(h, IF k_enabled[h] THEN "start" ELSE "idle")
    /\ UNCHANGED <<ping_lock, k_latest, k_cnt>>

\* the sleep of a disabled host's loop going on to the enabled test
IdleSleepNoTest(h) ==
    /\ w_pc[h] = "idle"
    /\ WorkerGoes(h, "check")
    /\ k_cnt' = IF ping_threads_running THEN k_cnt
                ELSE [k_cnt EXCEPT ![h].fs = Inc(@)]
    /\ UNCHANGED <<ping_lock, k_latest>>

\* ping.py:24-25  time.sleep(0.5); continue
IdleSleep(h) ==
    /\ w_pc[h] = "idle"
    /\ WorkerGoes(h, "top")
    /\ k_cnt' = IF ping_threads_running THEN k_cnt
                ELSE [k_cnt EXCEPT ![h].fs = Inc(@)]
    /\ UNCHANGED <<ping_lock, k_latest>>

\* ping.py:27  the ping command is started
ProbeStart(h) ==
    /\ w_pc[h] = "start"
    /\ WorkerGoes(h, "probe")
    /\ k_cnt' = IF k_cnt[h].removed THEN [k_cnt EXCEPT ![h].rp = Inc(@)] ELSE k_cnt
    /\ UNCHANGED <<ping_lock, k_latest>>

\* ping.py:27-32, 35  the command returns (at most 1 s, -W 1) or raises
ProbeEnd(h) ==
    /\ w_pc[h] = "probe"
    /\ WorkerGoes(h, "lock")
    /\ k_cnt' = IF ping_threads_running THEN k_cnt
                ELSE [k_cnt EXCEPT ![h].fp = Inc(@)]
    /\ UNCHANGED <<ping_lock, k_latest>>

\* ping.py:33, 36  with ping_lock
LockAcquire(h) ==
    /\ w_pc[h] = "lock" /\ ping_lock = 0
    /\ ping_lock' = h
    /\ WorkerGoes(h, "write")
    /\ UNCHANGED <<k_latest, k_cnt>>

\* ping.py:34, 37  host_info["latest"] = the latency or None; the lock is released
StoreLatest(h) ==
    /\ w_pc[h] = "write" /\ ping_lock = h
    /\ \E r \in PingOutcomes : k_latest' = [k_latest EXCEPT ![h] = r]
    /\ ping_lock' = 0
    /\ WorkerGoes(h, "sleep")
    /\ UNCHANGED k_cnt

\* ping.py:38  time.sleep(0.5)
LoopSleep(h) ==
    /\ w_pc[h] = "sleep"
    /\ WorkerGoes(h, "top")
    /\ k_cnt' = IF ping_threads_running THEN k_cnt
                ELSE [k_cnt EXCEPT ![h].fs = Inc(@)]
    /\ UNCHANGED <<ping_lock, k_latest>>

\* ping.py:20-38
ping_worker(h) ==
    \/ LoopTest(h) \/ EnabledTest(h) \/ IdleSleep(h) \/ ProbeStart(h) \/ ProbeEnd(h)
    \/ LockAcquire(h) \/ StoreLatest(h) \/ LoopSleep(h)

CollectorGoes(next) ==
    /\ k_c' = next
    /\ UNCHANGED <<ping_threads_running, w_pc, k_hosts, k_enabled, k_latest, k_m,
                   k_unlocked>>
    /\ PingFrame

\* app.py:82-84, live_view.py:33-65  a tick starts; the appends to the
\* global arrays are not part of this specification
HostLoopBegin ==
    /\ k_c.pc = "idle" /\ k_m.pc # "stopped" /\ k_ticks < MaxPingTicks
    /\ CollectorGoes([pc |-> "next", i |-> 0, host |-> 0])
    /\ UNCHANGED <<ping_lock, k_ticks, k_cnt>>

\* live_view.py:68  the list iterator yields the next host_info or stops
HostLoopNext ==
    /\ k_c.pc = "next"
    /\ IF k_c.i < Len(k_hosts)
       THEN /\ CollectorGoes([pc |-> "lock", i |-> k_c.i + 1, host |-> k_hosts[k_c.i + 1]])
            /\ UNCHANGED k_ticks
       ELSE /\ CollectorGoes([pc |-> "idle", i |-> 0, host |-> 0])
            /\ k_ticks' = k_ticks + 1
    /\ UNCHANGED <<ping_lock, k_cnt>>

\* live_view.py:69  with ping.ping_lock
HostLoopLock ==
    /\ k_c.pc = "lock" /\ ping_lock = 0
    /\ ping_lock' = CollectorThread
    /\ CollectorGoes([k_c EXCEPT !.pc = "read"])
    /\ UNCHANGED <<k_ticks, k_cnt>>

\* live_view.py:70  latest = host_info["latest"]; the lock is released
HostLoopRead ==
    /\ k_c.pc = "read" /\ ping_lock = CollectorThread
    /\ ping_lock' = 0
    /\ CollectorGoes([k_c EXCEPT !.pc = "append"])
    /\ UNCHANGED <<k_ticks, k_cnt>>

\* live_view.py:71-74  the appends to host_info["data"] and ["failed"]
HostLoopAppend ==
    /\ k_c.pc = "append"
    /\ k_cnt' = IF \E j \in 1..Len(k_hosts) : k_hosts[j] = k_c.host THEN k_cnt
                ELSE [k_cnt EXCEPT ![k_c.host].ra = Inc(@)]
    /\ CollectorGoes([k_c EXCEPT !.pc = "next"])
    /\ UNCHANGED <<ping_lock, k_ticks>>

HostLoop == HostLoopBegin \/ HostLoopNext \/ HostLoopLock \/ HostLoopRead \/ HostLoopAppend

MainGoes(next) ==
    /\ k_m' = next
    /\ UNCHANGED <<ping_lock, w_pc, k_latest, k_c, k_ticks>>
    /\ PingFrame

\* remove_ping_host popping the host without clearing its flag
RemoveFlagKept ==
    /\ k_m.pc = "loop" /\ k_m.removes < MaxRemoves
    /\ \E idx \in 1..Len(k_hosts) :
         LET h == k_hosts[idx] IN
         /\ k_cnt' = [k_cnt EXCEPT ![h].removed = TRUE, ![h].passed = (w_pc[h] = "start")]
         /\ MainGoes([pc |-> "rm_pop", idx |-> idx, removes |-> k_m.removes + 1])
    /\ UNCHANGED <<ping_threads_running, k_hosts, k_enabled, k_unlocked>>

\* ping.py:71-72  a valid index: config.ping_hosts[index]["enabled"] = False
RemoveFlag ==
    /\ k_m.pc = "loop" /\ k_m.removes < MaxRemoves
    /\ \E idx \in 1..Len(k_hosts) :
         LET h == k_hosts[idx] IN
         /\ k_enabled' = [k_enabled EXCEPT ![h] = FALSE]
         /\ k_cnt' = [k_cnt EXCEPT ![h].removed = TRUE, ![h].passed = (w_pc[h] = "start")]
         /\ MainGoes([pc |-> "rm_pop", idx |-> idx, removes |-> k_m.removes + 1])
    /\ UNCHANGED <<ping_threads_running, k_hosts, k_unlocked>>

\* ping.py:73  config.ping_hosts.pop(index)
RemovePop ==
    /\ k_m.pc = "rm_pop"
    /\ LET h == k_hosts[k_m.idx] IN
         k_cnt' = [k_cnt EXCEPT ![h].fetched =
                      (k_c.host = h /\ k_c.pc \in {"lock", "read", "append"})]
    /\ k_hosts' = PopAt(k_hosts, k_m.idx)
    /\ MainGoes([k_m EXCEPT !.pc = "loop", !.idx = 0])
    /\ UNCHANGED <<ping_threads_running, k_enabled, k_unlocked>>

\* live_view.py:121-132  get_windowed_data reads host_info.get("latest") of
\* each listed host; it takes no lock
RenderLatest ==
    /\ k_m.pc = "loop"
    /\ Len(k_hosts) > 0
    /\ k_unlocked' = [by |-> "get_windowed_data", kind |-> "read"]
    /\ MainGoes(k_m)
    /\ UNCHANGED <<ping_threads_running, k_hosts, k_enabled, k_cnt>>

\* app.py:208-210, ping.py:76-79  the main loop has ended
stop_all_ping_threads ==
    /\ k_m.pc = "loop"
    /\ ping_threads_running' = FALSE
    /\ MainGoes([k_m EXCEPT !.pc = "stopped"])
    /\ UNCHANGED <<k_hosts, k_enabled, k_cnt, k_unlocked>>

Workers == \E h \in HostIds : ping_worker(h)
remove_ping_host == RemoveFlag \/ RemovePop

NextPing == Workers \/ HostLoop \/ remove_ping_host \/ RenderLatest \/ stop_all_ping_threads

SpecPing == InitPing /\ [][NextPing]_vars

\* every thread that can take a step is scheduled again, and a thread that
\* holds the lock goes on to release it
SpecPingLive ==
    /\ SpecPing
    /\ \A h \in HostIds : WF_vars(ping_worker(h))
    /\ WF_vars(HostLoop)

Listed(h) == \E j \in 1..Len(k_hosts) : k_hosts[j] = h

AllLoopsDone == \A h \in HostIds : w_pc[h] = "done"

\* C21: after stop_all_ping_threads has set the flag false every ping loop,
\* of an enabled, a disabled or a removed host, terminates; until then it
\* finishes at most one probe and one sleep, and a loop that has seen the
\* flag false is done and starts nothing again.
C21_StopAll ==
    /\ [](\A h \in HostIds : k_cnt[h].fp <= 1 /\ k_cnt[h].fs <= 1)
    /\ [][\A h \in HostIds : w_pc[h] = "done" => w_pc'[h] = "done"]_vars
    /\ (~ping_threads_running ~> AllLoopsDone)

\* stopped with every loop done: one loop finished its probe in flight and
\* a sleep first, another was the loop of a removed host
C21_Witness ==
    /\ ~ping_threads_running /\ AllLoopsDone
    /\ \E h \in HostIds : k_cnt[h].fp = 1 /\ k_cnt[h].fs = 1
    /\ \E h \in HostIds : ~Listed(h) /\ ~k_enabled[h]

\* C24: remove_ping_host clears the host's enabled flag before it pops the
\* host; after that the host's loop starts no probe but the one whose
\* enabled test had already passed, the collector makes no append to its
\* history but the one of an iteration that had already fetched the host,
\* and the loop is not terminated while the run flag is true.
C24_RemoveHost ==
    /\ k_m # None /\ k_m.pc = "rm_pop" => ~k_enabled[k_hosts[k_m.idx]]
    /\ \A h \in DOMAIN k_cnt :
          /\ ~Listed(h) => ~k_enabled[h]
          /\ k_cnt[h].rp <= (IF k_cnt[h].passed THEN 1 ELSE 0)
          /\ k_cnt[h].ra <= (IF k_cnt[h].fetched THEN 1 ELSE 0)
          /\ w_pc[h] = "done" => ~ping_threads_running

\* a removed host whose iteration of the collector was under way at the pop:
\* it got that one append, and its loop idles with the run flag still true
C24_Witness ==
    /\ ping_threads_running
    /\ \E h \in DOMAIN k_cnt :
          /\ ~Listed(h) /\ ~k_enabled[h]
          /\ k_cnt[h].fetched /\ k_cnt[h].ra = 1
          /\ w_pc[h] = "idle"

\* C25: every access to a host's latest value is made holding ping_lock: no
\* access without the lock has been made.
C25_LockDiscipline == k_unlocked = None

(***************************************************************************)
(* Races of one collector tick with the reader and with a removal.         *)
(***************************************************************************)
\* the field of a tick that a returned series shows
SeriesField(s) == CASE s = "signal" -> "signal" [] s = "rx" -> "rx_rate" [] s = "tx" -> "tx_rate"

\* the value v was recorded by the tick whose timestamp is t
RecordedAt(t, s, v) ==
    \E k \in 1..Len(log) : log[k].time = t /\ OrNaN(log[k][SeriesField(s)]) = v

\* C28: whenever get_windowed_data returns a non-empty signal, rx or tx
\* series, the value at each returned position was recorded in the same tick
\* as the timestamp at that position of the returned time series - also when
\* a whole tick (append and trim at the ceiling) ran between the reader's
\* read of the time array and its reads of the other arrays.
C28_ReaderAligned ==
    (m_pc = "r_done" /\ view # NoView) =>
        \A s \in {"signal", "rx", "tx"} :
            view[s] # <<>> =>
                /\ Len(view[s]) = Len(view.time)
                /\ \A i \in 1..Len(view[s]) : RecordedAt(view.time[i], s, view[s][i])

\* C29: at the end of a tick, every host that was listed when the tick began
\* and has not been removed since has received the tick's append, and the
\* tick's trim when the tick trimmed - also when another host was removed
\* while the collector was iterating over the list.
C29_RemovalDuringTick ==
    (c_pc = "idle" /\ ticks >= 1) =>
        /\ stable \subseteq appended
        /\ c_trim > 0 => stable \subseteq trimmed

(***************************************************************************)
(* app.py: App.run's render/input loop on the main thread, the collection  *)
(* thread (collection_worker) and the scan thread (background_scan), by    *)
(* position.  What a tick appends, what a scan stores and what a prompt    *)
(* does to the host list are the subject of the specifications above; here *)
(* a tick is counted, a storage call returns, and the user leaves a prompt *)
(* without naming a host.                                                  *)
(***************************************************************************)
MaxLoopTicks == 2
MaxIntervals == 1

\* app.py:18
SCAN_INTERVAL == 3600

\* config.py:8-15  list(config.TIME_WINDOWS.values())
TIME_WINDOWS == <<600, 1800, 3600, 14400, 86400, 604800>>

\* what get_key can return: the keys the handlers name, any other key ("x")
KeysPressed == {"q", "h", "l", "p", "+", "=", "-", "a", "d", "7", "1", "3", "2", "5", "s", "x"}

\* live_view.py:234-241
increase_window(current) ==
    IF \E i \in 1..(Len(TIME_WINDOWS) - 1) : TIME_WINDOWS[i] = current
    THEN TIME_WINDOWS[(CHOOSE i \in 1..(Len(TIME_WINDOWS) - 1) : TIME_WINDOWS[i] = current) + 1]
    ELSE current

\* live_view.py:243-250
decrease_window(current) ==
    IF \E i \in 2..Len(TIME_WINDOWS) : TIME_WINDOWS[i] = current
    THEN TIME_WINDOWS[(CHOOSE i \in 2..Len(TIME_WINDOWS) : TIME_WINDOWS[i] = current) - 1]
    ELSE current

\* a loop that hands every key to the live view's handler
HandlerOfLiveOnly(current) == "live"

\* app.py:144-147  the handler a key is handed to
HandlerOf(current) == current

\* storage.get_heatmap_data(days, band) as load_data keeps it: the grid is
\* represented by the arguments it was built from, the dates by their numbers
LoadedGrid(days, band) == Grid([days |-> days, band |-> band])

liveKeyVars == <<paused, paused_at, current_window>>
heatKeyVars == <<hv_days, hv_band, hv_dates, hv_channels, hv_data, hv_scanning>>
workerVars == <<cw_pc, ticks, while_paused>>
scanThreadVars == <<scan_thread, last_scan_time>>

\* the variables no step of the loop, the worker or the scan thread writes
LoopFrame ==
    UNCHANGED <<storeVars, hostVars, collVars, mainVars, readVars, last, log, nprobes,
                histVars, scanVars, bucketVars, chartVars, dotVars, parseVars, heatVars,
                f_file, f_writable, f_mkdir, f_n, f_prev, f_result,
                ping_lock, w_pc, k_hosts, k_enabled, k_latest, k_c, k_m, k_ticks, k_cnt,
                k_unlocked>>

\* heatmap_view.py:30-37  load_data; detected is get_current_band() or "2.4"
load_data(days, band, detected) ==
    LET used == IF band = None THEN detected ELSE band IN
    /\ hv_data' = LoadedGrid(days, used)
    /\ hv_dates' = ListOf([i \in 1..days |-> i])
    /\ hv_channels' = ListOf(get_channels_for_band(used.v))
    /\ hv_band' = used
    /\ hv_days' = days

\* app.py:172-189  setup, the initial collect_data, the forced first scan,
\* the collection thread started, the first render (of the live view)
RunStart ==
    /\ run_pc = "off"
    /\ ticks' = ticks + 1
    /\ last_scan_time' = clock - SCAN_INTERVAL
    /\ cw_pc' = "test"
    /\ run_pc' = "poll"
    /\ UNCHANGED <<running, current_view, last_key, collecting, scan_thread, nintervals,
                   while_paused, liveKeyVars, heatKeyVars, clock, ping_threads_running>>
    /\ LoopFrame

\* live_view.py:206-232  LiveView.handle_key, and what handle_input does
\* with its action (app.py:149-160)
LiveHandleKey(k) ==
    /\ paused' = IF k = "p" THEN ~paused ELSE paused
    /\ paused_at' = IF k = "p" THEN (IF ~paused THEN clock ELSE 0) ELSE paused_at
    /\ current_window' = IF k \in {"+", "="} THEN decrease_window(current_window)
                         ELSE IF k = "-" THEN increase_window(current_window)
                         ELSE current_window
    /\ running' = IF k = "q" THEN FALSE ELSE running
    /\ current_view' = IF k = "h" THEN "heatmap" ELSE current_view
    /\ run_pc' = IF k = "a" THEN "add_host"
                 ELSE IF k = "d" THEN "delete_host" ELSE "render"
    /\ UNCHANGED heatKeyVars

\* heatmap_view.py:182-211  HeatmapView.handle_key (trigger_scan up to its
\* call of scan_channels, heatmap_view.py:41-42), and what handle_input
\* does with its action
HeatmapHandleKey(k) ==
    /\ IF k \in {"7", "1", "3"}
       THEN /\ \E detected \in {Str("2.4"), Str("5")} :
                 load_data(IF k = "7" THEN 7 ELSE IF k = "1" THEN 14 ELSE 30,
                           hv_band, detected)
            /\ UNCHANGED hv_scanning
       ELSE IF k \in {"2", "5"}
       THEN /\ load_data(hv_days, IF k = "2" THEN Str("2.4") ELSE Str("5"), None)
            /\ UNCHANGED hv_scanning
       ELSE IF k = "s"
       THEN /\ hv_scanning' = TRUE
            /\ UNCHANGED <<hv_days, hv_band, hv_dates, hv_channels, hv_data>>
       ELSE UNCHANGED heatKeyVars
    /\ running' = IF k = "q" THEN FALSE ELSE running
    /\ current_view' = IF k = "l" THEN "live" ELSE current_view
    /\ run_pc' = IF k = "s" THEN "trigger_scan" ELSE "render"
    /\ UNCHANGED liveKeyVars

\* app.py:190-193  while self.running: key = get_key(timeout=0.1);
\* action = self.handle_input(key)
handle_input ==
    /\ run_pc = "poll" /\ running
    /\ \E k \in KeysPressed \cup {"None"} :
         /\ last_key' = k
         /\ IF k = "None"
            THEN /\ run_pc' = "render"
                 /\ UNCHANGED <<running, current_view, liveKeyVars, heatKeyVars>>
            ELSE IF HandlerOf(current_view) = "live"
                 THEN LiveHandleKey(k)
                 ELSE HeatmapHandleKey(k)
    /\ UNCHANGED <<collecting, workerVars, scanThreadVars, nintervals, clock,
                   ping_threads_running>>
    /\ LoopFrame

MainGoesTo(next) ==
    /\ run_pc' = next
    /\ UNCHANGED <<running, current_view, last_key, collecting, workerVars,
                   scanThreadVars, nintervals, clock, ping_threads_running>>
    /\ LoopFrame

\* app.py:196-199, 97-109  the prompt, left empty
add_ping_host_interactive ==
    /\ run_pc = "add_host"
    /\ MainGoesTo("render")
    /\ UNCHANGED <<liveKeyVars, heatKeyVars>>

\* app.py:200-203, 111-137  no host to delete, or the prompt left empty
delete_ping_host_interactive ==
    /\ run_pc = "delete_host"
    /\ MainGoesTo("render")
    /\ UNCHANGED <<liveKeyVars, heatKeyVars>>

\* heatmap_view.py:42-46  scan_channels returns on the main thread; a truthy
\* result is saved and the grid reloaded
TriggerScanReturns ==
    /\ run_pc = "trigger_scan"
    /\ \E found \in BOOLEAN :
         IF found
         THEN load_data(hv_days, hv_band, None)
         ELSE UNCHANGED <<hv_days, hv_band, hv_dates, hv_channels, hv_data>>
    /\ hv_scanning' = FALSE
    /\ MainGoesTo("render")
    /\ UNCHANGED liveKeyVars

\* app.py:206, 162-168  render: the live view's, or heatmap_view.py:50-51
\* if self.data is None: self.load_data()
Render ==
    /\ run_pc = "render"
    /\ IF current_view = "live"
       THEN /\ run_pc' = "poll"
            /\ UNCHANGED heatKeyVars
       ELSE /\ run_pc' = "render_54"
            /\ IF hv_data = None
               THEN \E detected \in {Str("2.4"), Str("5")} :
                        load_data(hv_days, hv_band, detected)
               ELSE UNCHANGED <<hv_days, hv_band, hv_dates, hv_channels, hv_data>>
            /\ UNCHANGED hv_scanning
    /\ last_key' = "None"
    /\ UNCHANGED <<running, current_view, collecting, workerVars, scanThreadVars,
                   nintervals, clock, ping_threads_running, liveKeyVars>>
    /\ LoopFrame

\* heatmap_view.py:54-57  the no-data panel
RenderCheck ==
    /\ run_pc = "render_54"
    /\ IF hv_dates = None \/ hv_channels = None \/ hv_data = None
       THEN MainGoesTo("poll")
       ELSE MainGoesTo("render_62")
    /\ UNCHANGED <<liveKeyVars, heatKeyVars>>

\* heatmap_view.py:60-62 and the table built from them; np.flipud(None)
\* raises ValueError, which leaves render, live.update and App.run
RenderTable ==
    /\ run_pc = "render_62"
    /\ IF hv_data = None
       THEN MainGoesTo("render_raised")
       ELSE MainGoesTo("poll")
    /\ UNCHANGED <<liveKeyVars, heatKeyVars>>

\* app.py:190, 208-210  the loop ends: stop_collection, stop_all_ping_threads
LoopExit ==
    /\ run_pc = "poll" /\ ~running
    /\ collecting' = FALSE
    /\ ping_threads_running' = FALSE
    /\ run_pc' = "exited"
    /\ UNCHANGED <<running, current_view, last_key, workerVars, scanThreadVars,
                   nintervals, clock, liveKeyVars, heatKeyVars>>
    /\ LoopFrame

WorkerGoesTo(next) ==
    /\ cw_pc' = next
    /\ UNCHANGED <<running, current_view, last_key, run_pc, collecting, nintervals, clock,
                   ping_threads_running, liveKeyVars, heatKeyVars>>
    /\ LoopFrame

\* app.py:82-83, 86  while self.collecting: if not config.paused: ...; sleep
WorkerTest ==
    /\ cw_pc = "test"
    /\ IF ~collecting THEN WorkerGoesTo("done")
       ELSE /\ ~paused /\ ticks < MaxLoopTicks
            /\ WorkerGoesTo("collect")
    /\ UNCHANGED <<ticks, while_paused, scanThreadVars>>

\* live_view.py:33-34  if config.paused: return
CollectCheck ==
    /\ cw_pc = "collect"
    /\ IF paused
       THEN WorkerGoesTo("scan_check") /\ UNCHANGED while_paused
       ELSE /\ WorkerGoesTo("tick")
            /\ while_paused' = [while_paused EXCEPT !.ticks = @ + (IF paused THEN 1 ELSE 0)]
    /\ UNCHANGED <<ticks, scanThreadVars>>

\* live_view.py:36-91  the appends and the trim of one tick
Tick ==
    /\ cw_pc = "tick"
    /\ ticks' = ticks + 1
    /\ WorkerGoesTo("scan_check")
    /\ UNCHANGED <<while_paused, scanThreadVars>>

\* Thread.is_alive(): background_scan has not returned
is_alive(thread) == thread \in {"scanning", "saving"}

\* app.py:85, 70-78
check_and_run_scan ==
    /\ cw_pc = "scan_check"
    /\ IF clock - last_scan_time >= SCAN_INTERVAL
       THEN /\ last_scan_time' = clock
            /\ IF scan_thread = "None" \/ ~is_alive(scan_thread)
               THEN /\ scan_thread' = "scanning"
                    /\ while_paused' =
                          [while_paused EXCEPT !.scans = @ + (IF paused THEN 1 ELSE 0)]
               ELSE UNCHANGED <<scan_thread, while_paused>>
       ELSE UNCHANGED <<last_scan_time, scan_thread, while_paused>>
    /\ WorkerGoesTo("test")
    /\ UNCHANGED ticks

\* app.py:61-63  scan_channels returns on the scan thread; a falsy result
\* (or an exception, app.py:67-68) ends background_scan
BackgroundScanReturns ==
    /\ scan_thread = "scanning"
    /\ \E found \in BOOLEAN : scan_thread' = IF found THEN "saving" ELSE "dead"
    /\ UNCHANGED <<running, current_view, last_key, run_pc, collecting, workerVars,
                   last_scan_time, nintervals, clock, ping_threads_running, liveKeyVars,
                   heatKeyVars>>
    /\ LoopFrame

\* app.py:64-68  save_scan returns and self.heatmap_view.data = None, or
\* save_scan raises and the exception is dropped
BackgroundScanSaves ==
    /\ scan_thread = "saving"
    /\ scan_thread' = "dead"
    /\ \E raised \in BOOLEAN : hv_data' = IF raised THEN hv_data ELSE None
    /\ UNCHANGED <<running, current_view, last_key, run_pc, collecting, workerVars,
                   last_scan_time, nintervals, clock, ping_threads_running, liveKeyVars,
                   hv_days, hv_band, hv_dates, hv_channels, hv_scanning>>
    /\ LoopFrame

\* time.time() passes the next scan interval
IntervalElapses ==
    /\ nintervals < MaxIntervals
    /\ run_pc # "off"
    /\ nintervals' = nintervals + 1
    /\ clock' = clock + SCAN_INTERVAL
    /\ UNCHANGED <<running, current_view, last_key, run_pc, collecting, workerVars,
                   scanThreadVars, ping_threads_running, liveKeyVars, heatKeyVars>>
    /\ LoopFrame

Prompts == add_ping_host_interactive \/ delete_ping_host_interactive
HeatmapRender == RenderCheck \/ RenderTable
collection_worker == WorkerTest \/ CollectCheck \/ Tick \/ check_and_run_scan
ScanThread == BackgroundScanReturns \/ BackgroundScanSaves

NextLoop ==
    \/ RunStart \/ handle_input \/ Prompts \/ TriggerScanReturns \/ Render
    \/ HeatmapRender \/ LoopExit \/ collection_worker \/ ScanThread
    \/ IntervalElapses

SpecLoop == Init /\ [][NextLoop]_vars

LiveOnlyKeys == {"p", "+", "=", "-", "a", "d"}
HeatmapOnlyKeys == {"7", "1", "3", "2", "5", "s"}

\* a step of the loop that handles a key
KeyHandled == run_pc = "poll" /\ running /\ run_pc' # "poll"

NothingChanged ==
    /\ UNCHANGED <<liveKeyVars, heatKeyVars, running, current_view>>
    /\ run_pc' = "render"

\* C22: the current view is always live or heatmap; 'h' handled in the live
\* view switches to heatmap, 'l' handled in the heatmap view switches to
\* live, 'q' in either view clears running (the loop ends); a live-only key
\* (p, +, =, -, a, d) handled in the heatmap view and a heatmap-only key
\* (7, 1, 3, 2, 5, s) handled in the live view change nothing: no setting,
\* no view, no prompt and no scan.
C22_KeyHandling ==
    /\ [](current_view \in {"live", "heatmap"})
    /\ [][KeyHandled =>
            /\ (current_view = "live" /\ last_key' = "h") => current_view' = "heatmap"
            /\ (current_view = "heatmap" /\ last_key' = "l") => current_view' = "live"
            /\ last_key' = "q" => ~running'
            /\ (current_view = "heatmap" /\ last_key' \in LiveOnlyKeys) => NothingChanged
            /\ (current_view = "live" /\ last_key' \in HeatmapOnlyKeys) => NothingChanged
       ]_vars
    /\ [](run_pc = "exited" => ~running)

\* 'p' has been handled in the heatmap view, after an earlier 'p' in the
\* live view had paused the collection: the pause is still set
C22_Witness ==
    /\ current_view = "heatmap" /\ last_key = "p" /\ run_pc = "render"
    /\ paused /\ ~hv_scanning

\* the channel scans in progress: scan_channels called and not yet returned
ScansInProgress ==
    (IF scan_thread = "scanning" THEN 1 ELSE 0) + (IF run_pc = "trigger_scan" THEN 1 ELSE 0)

\* C23: at most one channel scan is in progress at any time, a manual scan
\* on the main thread and a periodic scan on the scan thread included.
C23_OneScan == ScansInProgress <= 1

\* C26: the loop's thread never waits on a scan: it is never inside
\* trigger_scan's call of scan_channels between two key polls.
C26_LoopNeverWaits == run_pc # "trigger_scan"

\* C27: while config.paused is set no tick passes its paused check and no
\* periodic scan is started.
C27_PauseSuspends == while_paused.ticks = 0 /\ while_paused.scans = 0

\* C30: no heatmap render raises: the table is never built from a grid that
\* the scan thread has reset to None.
C30_RenderRace == run_pc # "render_raised"

====
